---- MODULE Spec2Model ----
(***************************************************************************)
(* The authenticated HTTP access core of the Alternatives.PE SDK           *)
(* (altpe_sdk/http_client.py) and the resource-method layer built on it    *)
(* (altpe_sdk/client.py, altpe_sdk/_sync_client.py).                       *)
(*                                                                         *)
(* Spec      : callers of one HTTPClient / SyncHTTPClient instance running *)
(*             _make_request concurrently (threads for the sync client,    *)
(*             asyncio tasks for the async client).                        *)
(* SpecLive  : the same callers under fair scheduling.                      *)
(* SpecClassify : _handle_response as a function of the response.          *)
(* SpecResource : the resource methods' parameter shaping and their one    *)
(*             executor call.                                              *)
(* SpecLog, SpecConstruct, SpecExchange, SpecHeaders : _redact and         *)
(*             _build_log_entry, __init__, one _get_token call and the     *)
(*             request headers of _make_request, each on its own.          *)
(***************************************************************************)
EXTENDS Integers, Sequences, FiniteSets, TLC

\* ------------------------------------------------------------------ bounds
NumCallers == 2
MaxCalls == 3

Callers == 1..NumCallers

\* Python's None for the token (tokens are the serial numbers 1, 2, ... of the
\* successful exchanges that issued them) and for a response not yet received.
None == 0

\* AltPEConfig.max_retries: set by the configuration, read by no code path.
max_retries == 3

\* ---------------------------------------------------------- Python values
\* Python values as far as the code tells them apart: a str, an int, None, a
\* dict (its items in order, each a key and a value), a list, a tuple.
Str(s) == [t |-> "str", v |-> s]
Int_(n) == [t |-> "int", v |-> n]
PyNone == [t |-> "none"]
Dict(items) == [t |-> "dict", v |-> items]
List(elems) == [t |-> "list", v |-> elems]
Tuple(elems) == [t |-> "tuple", v |-> elems]
Bool(b) == [t |-> "bool", v |-> b]
Item(k, val) == [k |-> k, val |-> val]

\* An attribute looked up on a value that has none (k.lower() on a key that
\* is no str, x.value on a plain str) raises AttributeError.
Raised == [t |-> "raised", v |-> "AttributeError"]

\* ------------------------------------------------------------- exceptions
\* AltPEError.__init__(message, status_code=None); the subclasses other than
\* ValidationError inherit it.
AltPEErrorInit(kind, message, status_code) ==
  [kind |-> kind, message |-> message, status_code |-> status_code,
   errors |-> [t |-> "unset"]]

\* ValidationError.__init__(message, errors=None): calls
\* super().__init__(message), so status_code keeps its default None, and the
\* second positional argument lands in errors.
ValidationErrorInit(message, errors) ==
  [kind |-> "ValidationError", message |-> message, status_code |-> None,
   errors |-> errors]

\* ---------------------------------------------------------- response bodies
\* A response body, as far as _handle_response looks at it:
\*   json    : whether response.json() decodes
\*   isdict  : whether the decoded value is a JSON object
\*   errors  : the object's "errors" member ("absent", a string, a list of
\*             strings <<...>>, or "invalid" for any other JSON type)
\*   message : the object's "message" member ("absent", "null", or a string)
\*   text    : response.text
NoBody == [json |-> FALSE, isdict |-> FALSE, errors |-> [t |-> "absent"],
           message |-> [t |-> "absent"], text |-> ""]

\* str(x) of a validated errors value (a str or a list of str).
PyStr(e) ==
  IF e.t = "str" THEN e.v
  ELSE IF e.v = <<>> THEN "[]"
  ELSE IF Len(e.v) = 1 THEN "['" \o e.v[1] \o "']"
  ELSE "['" \o e.v[1] \o "', '" \o e.v[2] \o "']"

\* ErrorResponse(**error_data) succeeds: error_data is a mapping, errors is a
\* str or a list of str, message is absent, null or a str.
ErrorResponseValid(body) ==
  /\ body.json
  /\ body.isdict
  /\ body.errors.t \in {"str", "list"}
  /\ body.message.t \in {"absent", "null", "str"}

\* "HTTP <code>"
HttpCode(status_code) == <<"HTTP", status_code>>

\* Lines 131-136 of _handle_response: the message of the typed error.
ErrorMessage(response) ==
  IF ErrorResponseValid(response.body)
  THEN IF response.body.message.t = "str" /\ response.body.message.v # ""
       THEN <<response.body.message.v>>
       ELSE <<PyStr(response.body.errors)>>
  ELSE IF response.body.text # ""
       THEN <<response.body.text>>
       ELSE HttpCode(response.status_code)

\* httpx.Response.is_success
IsSuccess(status_code) == 200 <= status_code /\ status_code <= 299

\* _handle_response: [raises |-> FALSE] for a success response, else the typed
\* error raised and whether self._token was set to None before raising.
HandleResponse(response) ==
  LET message == ErrorMessage(response)
      sc == response.status_code
  IN  IF IsSuccess(sc) THEN [raises |-> FALSE, clears |-> FALSE]
      ELSE IF sc = 401
        THEN [raises |-> TRUE, clears |-> TRUE,
              error |-> AltPEErrorInit("AuthenticationError", message, sc)]
      ELSE IF sc = 404
        THEN [raises |-> TRUE, clears |-> FALSE,
              error |-> AltPEErrorInit("NotFoundError", message, sc)]
      ELSE IF sc = 422
        THEN [raises |-> TRUE, clears |-> FALSE,
              error |-> ValidationErrorInit(message, [t |-> "int", v |-> sc])]
      ELSE IF sc = 429
        THEN [raises |-> TRUE, clears |-> FALSE,
              error |-> AltPEErrorInit("RateLimitError", message, sc)]
      ELSE IF sc >= 500
        THEN [raises |-> TRUE, clears |-> FALSE,
              error |-> AltPEErrorInit("ServerError", message, sc)]
      ELSE [raises |-> TRUE, clears |-> FALSE,
            error |-> AltPEErrorInit("AltPEError", message, sc)]

\* ------------------------------------------------ the client under callers
VARIABLES
  mode,         \* "sync": SyncHTTPClient under threads; "async": HTTPClient under asyncio tasks
  serial,       \* the callers issue their calls one after another, never overlapping
  log_enabled,  \* self._log_enabled
  token,        \* self._token (None, or the serial of the exchange that issued it)
  token_lock,   \* self._token_lock: None, or the caller holding it
  running,      \* async: the task that runs until its next await (None: the loop is free)
  pc,           \* each caller's position in _make_request / _get_token
  tok,          \* each call's local `token`, the value _get_token returned
  authHdr,      \* the Authorization header each call sent: -1 none, n "Bearer <n>" (0: "Bearer None")
  resp,         \* the status code each call received (None: none yet)
  outcome,      \* how each call ended: "none", "ok", or the exception's class
  nReq,         \* resource requests sent by the current call
  nExch,        \* credential exchanges sent by the current call
  nLog,         \* log records the current call handed to _append_jsonl_* (one line each when the write succeeds)
  calls,        \* calls started so far
  exchSent,     \* credential-exchange requests sent so far
  issued,       \* tokens issued so far by successful exchanges
  exchFailed,   \* some exchange ended in an error
  exchAborted,  \* some exchange was abandoned in flight by a cancelled caller
  invalidated,  \* some 401 response has cleared the cache
  lateCall,     \* some call started after a credential exchange had ended
  after401,     \* a call has raised on a 401 and no call has started since
  follow        \* the call is the first call started after a 401 was raised

histVars == <<calls, exchSent, issued, exchFailed, exchAborted, invalidated, lateCall, after401>>

\* ------------------------------------------ the classifier as a function
VARIABLES
  response,     \* the response handed to _handle_response
  result        \* what _handle_response did with it (Pending before)

classifyVars == <<response, result>>

\* ------------------------------------------------- the resource methods
VARIABLES
  request,      \* the resource method called and its arguments
  path,         \* the path the method hands to the executor ("": none yet)
  params,       \* the query parameters the method hands to the executor
  attempts,     \* executor calls the method has made
  answer,       \* the method's result: "pending", "ok" or the typed error's class
  phase,        \* "called", "sent", "done"
  served,       \* the response the executor received (NoCall: no request was sent)
  error,        \* the exception that left the method (NoError: none)
  returned      \* the object the method returned (NoResult: none)

resourceVars == <<request, path, params, attempts, answer, phase, served, error, returned>>

\* --------------------------------------------- the logging functions
VARIABLES
  obj,          \* the argument of _redact (NoCall: _redact is not the function under study)
  redacted,     \* what _redact returned or raised (Pending before)
  logArgs,      \* the keyword arguments of _build_log_entry (NoCall likewise)
  entry         \* the record _build_log_entry returned, or what it raised (Pending before)

logVars == <<obj, redacted, logArgs, entry>>

\* ----------------------------------------------------- construction
VARIABLES
  ctorArgs,     \* the client_id and client_secret arguments of __init__ (NoCall: not under study)
  env,          \* the configuration's values before __init__ runs
  config,       \* self.config as __init__ leaves it
  constructed   \* Pending, the constructed client's fields, or the error __init__ raised

constructVars == <<ctorArgs, env, config, constructed>>

\* ------------------------------------------- one call of _get_token
VARIABLES
  exchResponse, \* what the token endpoint answers if asked (NoCall: not under study)
  exchResult    \* Pending, or how the _get_token call ended

exchangeVars == <<exchResponse, exchResult>>

\* The state of the functions studied one at a time.
\* ------------------------------- the headers of one call of _make_request
VARIABLES
  hdrArgs,      \* the headers and authenticated arguments and the token _get_token returns (NoCall: not under study)
  sentHeaders   \* Pending, or the request_headers handed to the transport

headerVars == <<hdrArgs, sentHeaders>>

auxVars == <<logVars, constructVars, exchangeVars, headerVars>>

\* The status codes a resource request is answered with in the caller model.
Statuses == {200, 401, 404}

\* How a credential exchange ends: 200 with a (non-empty) token; 200 with a
\* body TokenResponse rejects; 422; any other status; the transport raising.
ExchangeOutcomes == {"ok", "badbody", "s422", "other", "transport"}

\* How _append_jsonl_* ends: the record is appended, or mkdir/open/write raises
\* inside its try and is swallowed. _build_log_entry is evaluated before it, as
\* the call's argument and outside that try: whether it raises is the other
\* input of a logging step.
AppendOutcomes == {"ok", "io_fail"}

\* Where a coroutine is suspended at an await (the thread model has no such
\* restriction: a thread can be preempted between any two steps).
AwaitPcs == {"gt_wait", "gt_log", "rq_wait", "rq_log"}
RestPcs == {"idle", "done"}

\* The caller may take a step: any thread; in asyncio the running task, or
\* any task when the loop is free. Where calls are issued one after another,
\* only while every other caller is between calls.
CanRun(c) ==
  /\ mode = "sync" \/ running \in {None, c}
  /\ serial => \A d \in Callers \ {c} : pc[d] \in RestPcs

\* Who runs next in asyncio: a task that reached an await (or waits for a held
\* lock, or returned to its caller) frees the loop; otherwise it keeps running.
Sched(c, newpc, newlock) ==
  IF mode = "async"
       /\ newpc \notin AwaitPcs \cup RestPcs
       /\ ~(newpc = "gt_lock" /\ newlock # None)
  THEN c ELSE None

\* Leaving `with self._token_lock` by any exit releases the lock.
Release(c) == IF token_lock = c THEN None ELSE token_lock

InitCallers ==
  /\ mode \in {"sync", "async"}
  /\ serial \in BOOLEAN
  /\ log_enabled \in BOOLEAN
  /\ token = None
  /\ token_lock = None
  /\ running = None
  /\ pc = [c \in Callers |-> "idle"]
  /\ tok = [c \in Callers |-> None]
  /\ authHdr = [c \in Callers |-> -1]
  /\ resp = [c \in Callers |-> None]
  /\ outcome = [c \in Callers |-> "none"]
  /\ nReq = [c \in Callers |-> 0]
  /\ nExch = [c \in Callers |-> 0]
  /\ nLog = [c \in Callers |-> 0]
  /\ follow = [c \in Callers |-> FALSE]
  /\ calls = 0
  /\ exchSent = 0
  /\ issued = 0
  /\ exchFailed = FALSE
  /\ exchAborted = FALSE
  /\ invalidated = FALSE
  /\ lateCall = FALSE
  /\ after401 = FALSE

\* A call ends: it returns the response or raises.
Finish(c, how) ==
  /\ pc' = [pc EXCEPT ![c] = "done"]
  /\ outcome' = [outcome EXCEPT ![c] = how]

\* _make_request is entered (lines 225-240 / 377-392). Its callers get, post,
\* put and delete never pass `authenticated`, so it is always True and
\* _get_token is called. The callers are interchangeable: they are numbered
\* in the order in which they make their first call.
Call(c) ==
  /\ pc[c] \in RestPcs
  /\ pc[c] = "idle" => \A d \in 1..(c - 1) : pc[d] # "idle"
  /\ CanRun(c)
  /\ calls < MaxCalls
  /\ calls' = calls + 1
  /\ pc' = [pc EXCEPT ![c] = "gt_check1"]
  /\ tok' = [tok EXCEPT ![c] = None]
  /\ authHdr' = [authHdr EXCEPT ![c] = -1]
  /\ resp' = [resp EXCEPT ![c] = None]
  /\ outcome' = [outcome EXCEPT ![c] = "none"]
  /\ nReq' = [nReq EXCEPT ![c] = 0]
  /\ nExch' = [nExch EXCEPT ![c] = 0]
  /\ follow' = [follow EXCEPT ![c] = after401]
  /\ after401' = FALSE
  /\ lateCall' = (lateCall \/ exchFailed \/ exchAborted \/ issued > 0)
  /\ nLog' = [nLog EXCEPT ![c] = 0]
  /\ UNCHANGED <<classifyVars, resourceVars, auxVars>>
  /\ running' = Sched(c, pc'[c], token_lock)
  /\ UNCHANGED <<mode, serial, log_enabled, token, token_lock, exchSent, issued,
                 exchFailed, exchAborted, invalidated>>

\* _get_token, first check (line 185 / 337): `if self._token:`
GtCheck1(c) ==
  /\ pc[c] = "gt_check1"
  /\ CanRun(c)
  /\ pc' = [pc EXCEPT ![c] = IF token # None THEN "gt_ret1" ELSE "gt_lock"]
  /\ UNCHANGED nLog
  /\ UNCHANGED <<classifyVars, resourceVars, auxVars>>
  /\ running' = Sched(c, pc'[c], token_lock)
  /\ UNCHANGED <<mode, serial, log_enabled, token, token_lock>>
  /\ UNCHANGED <<tok, authHdr, resp, outcome, nReq, nExch, follow>>
  /\ UNCHANGED histVars

\* line 186 / 338: `return self._token` (a second read of the attribute)
GtRet1(c) ==
  /\ pc[c] = "gt_ret1"
  /\ CanRun(c)
  /\ tok' = [tok EXCEPT ![c] = token]
  /\ pc' = [pc EXCEPT ![c] = "send"]
  /\ UNCHANGED nLog
  /\ UNCHANGED <<classifyVars, resourceVars, auxVars>>
  /\ running' = Sched(c, "send", token_lock)
  /\ UNCHANGED <<mode, serial, log_enabled, token, token_lock>>
  /\ UNCHANGED <<authHdr, resp, outcome, nReq, nExch, follow>>
  /\ UNCHANGED histVars

\* GtLock that enters without waiting for the lock to be free.
GtLock_NoWait(c) ==
  /\ pc[c] = "gt_lock"
  /\ CanRun(c)
  /\ token_lock' = c
  /\ pc' = [pc EXCEPT ![c] = "gt_check2"]
  /\ UNCHANGED nLog
  /\ UNCHANGED <<classifyVars, resourceVars, auxVars>>
  /\ running' = Sched(c, "gt_check2", c)
  /\ UNCHANGED <<mode, serial, log_enabled, token>>
  /\ UNCHANGED <<tok, authHdr, resp, outcome, nReq, nExch, follow>>
  /\ UNCHANGED histVars

\* line 188 / 340: `with self._token_lock:` is entered when the lock is free
GtLock(c) ==
  /\ pc[c] = "gt_lock"
  /\ CanRun(c)
  /\ token_lock = None
  /\ token_lock' = c
  /\ pc' = [pc EXCEPT ![c] = "gt_check2"]
  /\ UNCHANGED nLog
  /\ UNCHANGED <<classifyVars, resourceVars, auxVars>>
  /\ running' = Sched(c, "gt_check2", c)
  /\ UNCHANGED <<mode, serial, log_enabled, token>>
  /\ UNCHANGED <<tok, authHdr, resp, outcome, nReq, nExch, follow>>
  /\ UNCHANGED histVars

\* GtCheck2 without the re-check: the exchange is sent whatever the cache holds.
GtCheck2_NoRecheck(c) ==
  /\ pc[c] = "gt_check2"
  /\ CanRun(c)
  /\ pc' = [pc EXCEPT ![c] = "gt_post"]
  /\ UNCHANGED nLog
  /\ UNCHANGED <<classifyVars, resourceVars, auxVars>>
  /\ running' = Sched(c, "gt_post", token_lock)
  /\ UNCHANGED <<mode, serial, log_enabled, token, token_lock>>
  /\ UNCHANGED <<tok, authHdr, resp, outcome, nReq, nExch, follow>>
  /\ UNCHANGED histVars

\* line 189 / 341: the re-check under the lock
GtCheck2(c) ==
  /\ pc[c] = "gt_check2"
  /\ CanRun(c)
  /\ pc' = [pc EXCEPT ![c] = IF token # None THEN "gt_ret2" ELSE "gt_post"]
  /\ UNCHANGED nLog
  /\ UNCHANGED <<classifyVars, resourceVars, auxVars>>
  /\ running' = Sched(c, pc'[c], token_lock)
  /\ UNCHANGED <<mode, serial, log_enabled, token, token_lock>>
  /\ UNCHANGED <<tok, authHdr, resp, outcome, nReq, nExch, follow>>
  /\ UNCHANGED histVars

\* line 190 / 342: `return self._token` under the lock, which the return releases
GtRet2(c) ==
  /\ pc[c] = "gt_ret2"
  /\ CanRun(c)
  /\ tok' = [tok EXCEPT ![c] = token]
  /\ token_lock' = Release(c)
  /\ pc' = [pc EXCEPT ![c] = "send"]
  /\ UNCHANGED nLog
  /\ UNCHANGED <<classifyVars, resourceVars, auxVars>>
  /\ running' = Sched(c, "send", token_lock')
  /\ UNCHANGED <<mode, serial, log_enabled, token>>
  /\ UNCHANGED <<authHdr, resp, outcome, nReq, nExch, follow>>
  /\ UNCHANGED histVars

\* lines 192-201 / 344-353: the credential exchange is sent
GtPost(c) ==
  /\ pc[c] = "gt_post"
  /\ CanRun(c)
  /\ exchSent' = exchSent + 1
  /\ nExch' = [nExch EXCEPT ![c] = @ + 1]
  /\ pc' = [pc EXCEPT ![c] = "gt_wait"]
  /\ UNCHANGED nLog
  /\ UNCHANGED <<classifyVars, resourceVars, auxVars>>
  /\ running' = Sched(c, "gt_wait", token_lock)
  /\ UNCHANGED <<mode, serial, log_enabled, token, token_lock>>
  /\ UNCHANGED <<tok, authHdr, resp, outcome, nReq, follow>>
  /\ UNCHANGED <<calls, issued, exchFailed, exchAborted, invalidated, lateCall, after401>>

\* GtResponse that leaves the lock held when the exchange fails.
GtResponse_KeepLock(c, how) ==
  /\ pc[c] = "gt_wait"
  /\ CanRun(c)
  /\ IF how = "ok"
     THEN /\ issued' = issued + 1
          /\ token' = issued + 1
          /\ exchFailed' = exchFailed
          /\ pc' = [pc EXCEPT ![c] = IF log_enabled THEN "gt_log" ELSE "gt_ret3"]
          /\ UNCHANGED <<outcome, token_lock>>
     ELSE /\ Finish(c, CASE how = "s422" -> "AuthenticationError"
                         [] how = "other" -> "AuthenticationError"
                         [] how = "badbody" -> "DecodeError"
                         [] OTHER -> "TransportError")
          /\ exchFailed' = TRUE
          /\ UNCHANGED <<issued, token, token_lock>>
  /\ UNCHANGED nLog
  /\ UNCHANGED <<classifyVars, resourceVars, auxVars>>
  /\ running' = Sched(c, pc'[c], token_lock')
  /\ UNCHANGED <<mode, serial, log_enabled>>
  /\ UNCHANGED <<tok, authHdr, resp, nReq, nExch, follow>>
  /\ UNCHANGED <<calls, exchSent, exchAborted, invalidated, lateCall, after401>>

\* lines 203-223 / 355-375: the exchange's answer arrives. A 200 with a token
\* is cached (line 205); with logging enabled the log record is then built
\* (line 208) and appended. The record is built from the method's own request
\* data and the decoded JSON body, whose keys are all strings, so building it
\* does not raise here. Every other answer raises and caches nothing.
GtResponse(c, how) ==
  /\ pc[c] = "gt_wait"
  /\ CanRun(c)
  /\ IF how = "ok"
     THEN /\ issued' = issued + 1
          /\ token' = issued + 1
          /\ exchFailed' = exchFailed
          /\ pc' = [pc EXCEPT ![c] = IF log_enabled THEN "gt_log" ELSE "gt_ret3"]
          /\ UNCHANGED <<outcome, token_lock>>
     ELSE /\ Finish(c, CASE how = "s422" -> "AuthenticationError"
                         [] how = "other" -> "AuthenticationError"
                         [] how = "badbody" -> "DecodeError"
                         [] OTHER -> "TransportError")
          /\ token_lock' = Release(c)
          /\ exchFailed' = TRUE
          /\ UNCHANGED <<issued, token>>
  /\ UNCHANGED nLog
  /\ UNCHANGED <<classifyVars, resourceVars, auxVars>>
  /\ running' = Sched(c, pc'[c], token_lock')
  /\ UNCHANGED <<mode, serial, log_enabled>>
  /\ UNCHANGED <<tok, authHdr, resp, nReq, nExch, follow>>
  /\ UNCHANGED <<calls, exchSent, exchAborted, invalidated, lateCall, after401>>

\* lines 206-218 / 358-370: _append_jsonl_* returns, whatever became of the write
GtLog(c, how) ==
  /\ pc[c] = "gt_log"
  /\ CanRun(c)
  /\ how \in AppendOutcomes
  /\ pc' = [pc EXCEPT ![c] = "gt_ret3"]
  /\ nLog' = [nLog EXCEPT ![c] = @ + 1]
  /\ UNCHANGED <<classifyVars, resourceVars, auxVars>>
  /\ running' = Sched(c, "gt_ret3", token_lock)
  /\ UNCHANGED <<mode, serial, log_enabled, token, token_lock>>
  /\ UNCHANGED <<tok, authHdr, resp, outcome, nReq, nExch, follow>>
  /\ UNCHANGED histVars

\* line 219 / 371: `return self._token` (the attribute is read again)
GtRet3(c) ==
  /\ pc[c] = "gt_ret3"
  /\ CanRun(c)
  /\ tok' = [tok EXCEPT ![c] = token]
  /\ token_lock' = Release(c)
  /\ pc' = [pc EXCEPT ![c] = "send"]
  /\ UNCHANGED nLog
  /\ UNCHANGED <<classifyVars, resourceVars, auxVars>>
  /\ running' = Sched(c, "send", token_lock')
  /\ UNCHANGED <<mode, serial, log_enabled, token>>
  /\ UNCHANGED <<authHdr, resp, outcome, nReq, nExch, follow>>
  /\ UNCHANGED histVars

\* lines 241-249 / 393-401: the Authorization header is set from the local
\* token and the resource request is sent
Send(c) ==
  /\ pc[c] = "send"
  /\ CanRun(c)
  /\ authHdr' = [authHdr EXCEPT ![c] = tok[c]]
  /\ nReq' = [nReq EXCEPT ![c] = @ + 1]
  /\ pc' = [pc EXCEPT ![c] = "rq_wait"]
  /\ UNCHANGED nLog
  /\ UNCHANGED <<classifyVars, resourceVars, auxVars>>
  /\ running' = Sched(c, "rq_wait", token_lock)
  /\ UNCHANGED <<mode, serial, log_enabled, token, token_lock>>
  /\ UNCHANGED <<tok, resp, outcome, nExch, follow>>
  /\ UNCHANGED histVars

\* line 243 / 395 returns a response; with logging enabled its log record is
\* built (line 252 / 404), which may raise before _handle_response is reached
RqResponse(c, status_code, buildFails) ==
  /\ pc[c] = "rq_wait"
  /\ CanRun(c)
  /\ resp' = [resp EXCEPT ![c] = status_code]
  /\ IF log_enabled /\ buildFails
     THEN /\ Finish(c, "LogError")
     ELSE /\ pc' = [pc EXCEPT ![c] = IF log_enabled THEN "rq_log" ELSE "rq_handle"]
          /\ UNCHANGED outcome
  /\ UNCHANGED nLog
  /\ UNCHANGED <<classifyVars, resourceVars, auxVars>>
  /\ running' = Sched(c, pc'[c], token_lock)
  /\ UNCHANGED <<mode, serial, log_enabled, token, token_lock>>
  /\ UNCHANGED <<tok, authHdr, nReq, nExch, follow>>
  /\ UNCHANGED histVars

\* RqTransportError that converts the transport's exception to AltPEError.
RqTransportError_Typed(c) ==
  /\ pc[c] = "rq_wait"
  /\ CanRun(c)
  /\ Finish(c, "AltPEError")
  /\ UNCHANGED nLog
  /\ UNCHANGED <<classifyVars, resourceVars, auxVars>>
  /\ running' = Sched(c, "done", token_lock)
  /\ UNCHANGED <<mode, serial, log_enabled, token, token_lock>>
  /\ UNCHANGED <<tok, authHdr, resp, nReq, nExch, follow>>
  /\ UNCHANGED histVars

\* line 243 / 395 raises: the transport's exception leaves _make_request as it is
RqTransportError(c) ==
  /\ pc[c] = "rq_wait"
  /\ CanRun(c)
  /\ Finish(c, "TransportError")
  /\ UNCHANGED nLog
  /\ UNCHANGED <<classifyVars, resourceVars, auxVars>>
  /\ running' = Sched(c, "done", token_lock)
  /\ UNCHANGED <<mode, serial, log_enabled, token, token_lock>>
  /\ UNCHANGED <<tok, authHdr, resp, nReq, nExch, follow>>
  /\ UNCHANGED histVars

\* lines 250-260 / 402-412: _append_jsonl_* returns, whatever became of the write
RqLog(c, how) ==
  /\ pc[c] = "rq_log"
  /\ CanRun(c)
  /\ how \in AppendOutcomes
  /\ pc' = [pc EXCEPT ![c] = "rq_handle"]
  /\ nLog' = [nLog EXCEPT ![c] = @ + 1]
  /\ UNCHANGED <<classifyVars, resourceVars, auxVars>>
  /\ running' = Sched(c, "rq_handle", token_lock)
  /\ UNCHANGED <<mode, serial, log_enabled, token, token_lock>>
  /\ UNCHANGED <<tok, authHdr, resp, outcome, nReq, nExch, follow>>
  /\ UNCHANGED histVars

\* Handle that sets self._token = None on every failure response.
Handle_ClearAlways(c) ==
  /\ pc[c] = "rq_handle"
  /\ CanRun(c)
  /\ LET r == HandleResponse([status_code |-> resp[c], body |-> NoBody])
     IN  IF ~r.raises
         THEN /\ Finish(c, "ok")
              /\ UNCHANGED <<token, invalidated>>
         ELSE IF r.clears
         THEN /\ token' = None
              /\ invalidated' = TRUE
              /\ pc' = [pc EXCEPT ![c] = "h_raise"]
              /\ UNCHANGED outcome
         ELSE /\ Finish(c, r.error.kind)
              /\ token' = None
              /\ UNCHANGED invalidated
  /\ UNCHANGED nLog
  /\ UNCHANGED <<classifyVars, resourceVars, auxVars>>
  /\ running' = Sched(c, pc'[c], token_lock)
  /\ UNCHANGED <<mode, serial, log_enabled, token_lock>>
  /\ UNCHANGED <<tok, authHdr, resp, nReq, nExch, follow>>
  /\ UNCHANGED <<calls, exchSent, issued, exchFailed, exchAborted, lateCall, after401>>

\* Handle that raises on a 401 without setting self._token = None.
Handle_KeepToken(c) ==
  /\ pc[c] = "rq_handle"
  /\ CanRun(c)
  /\ LET r == HandleResponse([status_code |-> resp[c], body |-> NoBody])
     IN  IF ~r.raises
         THEN Finish(c, "ok")
         ELSE IF r.clears
         THEN pc' = [pc EXCEPT ![c] = "h_raise"] /\ UNCHANGED outcome
         ELSE Finish(c, r.error.kind)
  /\ UNCHANGED nLog
  /\ UNCHANGED <<classifyVars, resourceVars, auxVars>>
  /\ running' = Sched(c, pc'[c], token_lock)
  /\ UNCHANGED <<mode, serial, log_enabled, token, token_lock>>
  /\ UNCHANGED <<tok, authHdr, resp, nReq, nExch, follow>>
  /\ UNCHANGED histVars

\* line 261 / 413: _handle_response. A success response is returned; a 401
\* sets self._token = None (line 140) and then raises (line 141); every other
\* failure raises.
Handle(c) ==
  /\ pc[c] = "rq_handle"
  /\ CanRun(c)
  /\ LET r == HandleResponse([status_code |-> resp[c], body |-> NoBody])
     IN  IF ~r.raises
         THEN /\ Finish(c, "ok")
              /\ UNCHANGED <<token, invalidated>>
         ELSE IF r.clears
         THEN /\ token' = None
              /\ invalidated' = TRUE
              /\ pc' = [pc EXCEPT ![c] = "h_raise"]
              /\ UNCHANGED outcome
         ELSE /\ Finish(c, r.error.kind)
              /\ UNCHANGED <<token, invalidated>>
  /\ UNCHANGED nLog
  /\ UNCHANGED <<classifyVars, resourceVars, auxVars>>
  /\ running' = Sched(c, pc'[c], token_lock)
  /\ UNCHANGED <<mode, serial, log_enabled, token_lock>>
  /\ UNCHANGED <<tok, authHdr, resp, nReq, nExch, follow>>
  /\ UNCHANGED <<calls, exchSent, issued, exchFailed, exchAborted, lateCall, after401>>

\* Raise401 that re-authenticates and resends, up to max_retries attempts.
Raise401_Retry(c) ==
  /\ pc[c] = "h_raise"
  /\ CanRun(c)
  /\ IF nReq[c] < max_retries
     THEN /\ pc' = [pc EXCEPT ![c] = "gt_check1"]
          /\ UNCHANGED <<outcome, after401>>
     ELSE /\ Finish(c, "AuthenticationError")
          /\ after401' = TRUE
  /\ UNCHANGED nLog
  /\ UNCHANGED <<classifyVars, resourceVars, auxVars>>
  /\ running' = Sched(c, pc'[c], token_lock)
  /\ UNCHANGED <<mode, serial, log_enabled, token, token_lock>>
  /\ UNCHANGED <<tok, authHdr, resp, nReq, nExch, follow>>
  /\ UNCHANGED <<calls, exchSent, issued, exchFailed, exchAborted, invalidated, lateCall>>

\* line 141: `raise AuthenticationError(message, response.status_code)`
Raise401(c) ==
  /\ pc[c] = "h_raise"
  /\ CanRun(c)
  /\ Finish(c, "AuthenticationError")
  /\ after401' = TRUE
  /\ UNCHANGED nLog
  /\ UNCHANGED <<classifyVars, resourceVars, auxVars>>
  /\ running' = Sched(c, "done", token_lock)
  /\ UNCHANGED <<mode, serial, log_enabled, token, token_lock>>
  /\ UNCHANGED <<tok, authHdr, resp, nReq, nExch, follow>>
  /\ UNCHANGED <<calls, exchSent, issued, exchFailed, exchAborted, invalidated, lateCall>>

\* Cancel that leaves the lock with the cancelled task.
Cancel_KeepLock(c) ==
  /\ mode = "async"
  /\ running = None
  /\ CanRun(c)
  /\ pc[c] \in AwaitPcs \cup {"gt_lock"}
  /\ Finish(c, "CancelledError")
  /\ exchAborted' = (exchAborted \/ pc[c] = "gt_wait")
  /\ UNCHANGED nLog
  /\ UNCHANGED <<classifyVars, resourceVars, auxVars>>
  /\ running' = None
  /\ UNCHANGED <<mode, serial, log_enabled, token, token_lock>>
  /\ UNCHANGED <<tok, authHdr, resp, nReq, nExch, follow>>
  /\ UNCHANGED <<calls, exchSent, issued, exchFailed, invalidated, lateCall, after401>>

\* asyncio: the caller's task is cancelled while suspended at an await of
\* _make_request (lines 188, 197, 207, 243, 251). CancelledError leaves through
\* `async with`, which releases the lock; the awaited request is dropped with it.
Cancel(c) ==
  /\ mode = "async"
  /\ running = None
  /\ CanRun(c)
  /\ pc[c] \in AwaitPcs \cup {"gt_lock"}
  /\ Finish(c, "CancelledError")
  /\ token_lock' = Release(c)
  /\ exchAborted' = (exchAborted \/ pc[c] = "gt_wait")
  /\ UNCHANGED nLog
  /\ UNCHANGED <<classifyVars, resourceVars, auxVars>>
  /\ running' = None
  /\ UNCHANGED <<mode, serial, log_enabled, token>>
  /\ UNCHANGED <<tok, authHdr, resp, nReq, nExch, follow>>
  /\ UNCHANGED <<calls, exchSent, issued, exchFailed, invalidated, lateCall, after401>>

callerVars == <<mode, serial, log_enabled, token, token_lock, running, pc, tok,
                authHdr, resp, outcome, nReq, nExch, nLog, follow, calls,
                exchSent,
                issued, exchFailed, exchAborted, invalidated, lateCall, after401>>

vars == <<callerVars, classifyVars, resourceVars, auxVars>>

\* The parts of the state a specification does not use stay at rest.
Pending == [pending |-> TRUE]
ClassifyAtRest == response = [status_code |-> 200, body |-> NoBody] /\ result = Pending
NoCall == [t |-> "nocall"]
NoError == [kind |-> "none"]
NoResult == [t |-> "noresult"]
ResourceAtRest ==
  /\ request = [client |-> "none"]
  /\ path = ""
  /\ params = <<>>
  /\ attempts = 0
  /\ answer = "pending"
  /\ phase = "rest"
  /\ served = NoCall
  /\ error = NoError
  /\ returned = NoResult

LogAtRest ==
  /\ obj = NoCall
  /\ redacted = Pending
  /\ logArgs = NoCall
  /\ entry = Pending
ConstructAtRest ==
  /\ ctorArgs = NoCall
  /\ env = NoCall
  /\ config = NoCall
  /\ constructed = Pending
ExchangeAtRest == exchResponse = NoCall /\ exchResult = Pending
HeadersAtRest == hdrArgs = NoCall /\ sentHeaders = Pending
AuxAtRest == LogAtRest /\ ConstructAtRest /\ ExchangeAtRest /\ HeadersAtRest

Step(c) ==
  \/ Call(c)
  \/ GtCheck1(c)
  \/ GtRet1(c)
  \/ GtLock(c)
  \/ GtCheck2(c)
  \/ GtRet2(c)
  \/ GtPost(c)
  \/ \E how \in ExchangeOutcomes : GtResponse(c, how)
  \/ \E how \in AppendOutcomes : GtLog(c, how)
  \/ GtRet3(c)
  \/ Send(c)
  \/ \E status_code \in Statuses, buildFails \in BOOLEAN : RqResponse(c, status_code, buildFails)
  \/ RqTransportError(c)
  \/ \E how \in AppendOutcomes : RqLog(c, how)
  \/ Handle(c)
  \/ Raise401(c)
  \/ Cancel(c)

Init == InitCallers /\ ClassifyAtRest /\ ResourceAtRest /\ AuxAtRest

Next == \E c \in Callers : Step(c)

Spec == Init /\ [][Next]_vars

\* ------------------------------------------------ the callers, scheduled fairly
\* The steps a call takes by itself once it is scheduled and the server has
\* answered: every step but the start of a call, a cancellation and a
\* transport failure, which the environment may or may not bring about.
Progress(c) ==
  \/ GtCheck1(c)
  \/ GtRet1(c)
  \/ GtLock(c)
  \/ GtCheck2(c)
  \/ GtRet2(c)
  \/ GtPost(c)
  \/ \E how \in ExchangeOutcomes : GtResponse(c, how)
  \/ \E how \in AppendOutcomes : GtLog(c, how)
  \/ GtRet3(c)
  \/ Send(c)
  \/ \E status_code \in Statuses, buildFails \in BOOLEAN : RqResponse(c, status_code, buildFails)
  \/ \E how \in AppendOutcomes : RqLog(c, how)
  \/ Handle(c)
  \/ Raise401(c)

\* Fair scheduling and a server that answers: a call that can take a step
\* eventually takes one, and a caller waiting for the lock is not passed over
\* forever when the lock is released again and again (asyncio.Lock wakes its
\* waiters in order; a thread blocked in threading.Lock.acquire is woken by a
\* release).
Fairness == \A c \in Callers : WF_vars(Progress(c)) /\ SF_vars(GtLock(c))

SpecLive == Init /\ [][Next]_vars /\ Fairness

\* ------------------------------------------- the classifier on its own
\* No caller is inside a call; the cache is empty or holds token 1.
CallersAtRest ==
  /\ mode = "sync"
  /\ serial = FALSE
  /\ log_enabled = FALSE
  /\ token \in {None, 1}
  /\ issued = token
  /\ exchSent = token
  /\ calls = token
  /\ token_lock = None
  /\ running = None
  /\ pc = [c \in Callers |-> "idle"]
  /\ tok = [c \in Callers |-> None]
  /\ authHdr = [c \in Callers |-> -1]
  /\ resp = [c \in Callers |-> None]
  /\ outcome = [c \in Callers |-> "none"]
  /\ nReq = [c \in Callers |-> 0]
  /\ nExch = [c \in Callers |-> 0]
  /\ nLog = [c \in Callers |-> 0]
  /\ follow = [c \in Callers |-> FALSE]
  /\ exchFailed = FALSE
  /\ exchAborted = FALSE
  /\ invalidated = FALSE
  /\ lateCall = FALSE
  /\ after401 = FALSE

\* The status codes the classifier is tried on: the ends of each class, the
\* codes it names, and codes outside 100..599.
ClassifyStatuses ==
  {100, 199, 200, 204, 299, 300, 304, 399, 400, 401, 403, 404, 418, 422, 429,
   499, 500, 503, 599, 600, 999}

\* The "errors" and "message" members of a JSON object body.
ErrorsMembers ==
  {[t |-> "absent"], [t |-> "invalid"], [t |-> "str", v |-> ""],
   [t |-> "str", v |-> "E"], [t |-> "list", v |-> <<>>],
   [t |-> "list", v |-> <<"E1">>], [t |-> "list", v |-> <<"E1", "E2">>]}
MessageMembers ==
  {[t |-> "absent"], [t |-> "null"], [t |-> "invalid"],
   [t |-> "str", v |-> ""], [t |-> "str", v |-> "M"]}

\* Bodies: a JSON object (its text is the JSON text, never empty), JSON that
\* is not an object, text that is not JSON, and the empty body.
Bodies ==
  {[json |-> TRUE, isdict |-> TRUE, errors |-> e, message |-> m, text |-> "{json}"] :
     e \in ErrorsMembers, m \in MessageMembers}
  \cup {[json |-> TRUE, isdict |-> FALSE, errors |-> [t |-> "absent"],
         message |-> [t |-> "absent"], text |-> "[json]"]}
  \cup {[json |-> FALSE, isdict |-> FALSE, errors |-> [t |-> "absent"],
         message |-> [t |-> "absent"], text |-> "raw text"]}
  \cup {NoBody}

InitClassify ==
  /\ CallersAtRest
  /\ ResourceAtRest
  /\ AuxAtRest
  /\ response \in [status_code : ClassifyStatuses, body : Bodies]
  /\ result = Pending

\* _handle_response(response) is called (lines 126-151).
Classify ==
  /\ result = Pending
  /\ result' = HandleResponse(response)
  /\ token' = IF result'.clears THEN None ELSE token
  /\ invalidated' = (invalidated \/ result'.clears)
  /\ UNCHANGED <<response, resourceVars, auxVars>>
  /\ UNCHANGED <<mode, serial, log_enabled, token_lock, running, pc, tok, authHdr, resp,
                 outcome, nReq, nExch, nLog, follow, calls, exchSent, issued,
                 exchFailed, exchAborted, lateCall, after401>>

NextClassify == Classify

SpecClassify == InitClassify /\ [][NextClassify]_vars

\* ------------------------------------------- the resource methods' calls
\* The API's maximum page size, the 100 of `min(limit, 100)`.
MaxLimit == 100

Min(a, b) == IF a <= b THEN a ELSE b

\* The list-returning resource methods (both clients have all of them).
ListMethods ==
  {"get_companies", "get_investors", "get_directors", "get_founders",
   "get_auditors", "get_capital_providers", "get_funds",
   "get_fund_performances", "get_commitment_deals", "get_people"}

\* The "limit" entry of params in AsyncAlternativesPE (client.py): every list
\* method writes `"limit": min(limit, 100)`.
AsyncLimitParam(method, limit) == Min(limit, MaxLimit)

\* The "limit" entry of params in AlternativesPE (_sync_client.py): get_funds
\* writes `"limit": min(limit, 100)`, every other list method `"limit": limit`.
SyncLimitParam(method, limit) ==
  IF method = "get_funds" THEN Min(limit, MaxLimit) ELSE limit

\* CapitalProviderCategory's members and their wire values.
CapitalProviderCategory ==
  {[enum |-> TRUE, name |-> "FUND_MANAGER", value |-> "fund-manager"],
   [enum |-> TRUE, name |-> "LIMITED_PARTNER", value |-> "limited-partner"],
   [enum |-> TRUE, name |-> "FAMILY_OFFICE", value |-> "family-office"]}
PlainStr(x) == [enum |-> FALSE, name |-> x, value |-> x]

\* `category.value if hasattr(category, "value") else category`
WireValue(arg) == IF arg.enum THEN arg.value ELSE arg.name

\* The categories the server accepts; it answers any other with 422.
ServerCategories == {m.value : m \in CapitalProviderCategory}

\* An argument left at None, and a query parameter that is not put in params.
NotGiven == [enum |-> FALSE, name |-> "<None>", value |-> "<None>"]
Absent == [t |-> "absent"]

\* Members of the order_by enums (PersonOrderBy.FIRST_NAME = "first_name"; the
\* default of the methods whose order_by has one) and of CountryCode.
OrderByMember == [enum |-> TRUE, name |-> "FIRST_NAME", value |-> "first_name"]
DefaultOrderBy == [enum |-> TRUE, name |-> "ID", value |-> "id"]
SGP == [enum |-> TRUE, name |-> "SGP", value |-> "SGP"]
MYS == [enum |-> TRUE, name |-> "MYS", value |-> "MYS"]

\* How a method turns order_by into its query value: "value" is
\*   if order_by: params["order_by"] = order_by.value
\* and "hasattr" is
\*   "order_by": order_by.value if hasattr(order_by, "value") else order_by
OrderByStyle(client, method) ==
  IF client = "sync"
  THEN IF method = "get_funds" THEN "hasattr" ELSE "value"
  ELSE IF method \in {"get_companies", "get_investors", "get_directors",
                      "get_founders", "get_auditors"}
       THEN "value" ELSE "hasattr"

OrderByParam(client, method, arg) ==
  IF OrderByStyle(client, method) = "value"
  THEN IF arg = NotGiven \/ arg = PlainStr("") THEN Absent
       ELSE IF arg.enum THEN Str(arg.value) ELSE Raised
  ELSE Str(WireValue(IF arg = NotGiven THEN DefaultOrderBy ELSE arg))

\* How a method serializes a countries list: "checked" is
\*   ",".join(c.value if isinstance(c, CountryCode) else c for c in countries)
\* "unchecked" is
\*   ", ".join(c.value for c in countries)
\* and "none" marks a method without the parameter.
ListFilterStyle(client, method) ==
  IF client = "sync"
  THEN IF method \in {"get_companies", "get_investors", "get_capital_providers",
                      "get_people"}
       THEN "checked" ELSE "none"
  ELSE IF method = "get_companies" THEN "unchecked" ELSE "none"

\* delimiter.join(strings)
RECURSIVE Join(_, _)
Join(delimiter, strings) ==
  IF Len(strings) = 0 THEN ""
  ELSE IF Len(strings) = 1 THEN strings[1]
  ELSE strings[1] \o delimiter \o Join(delimiter, Tail(strings))

\* The wire values of a list's elements.
Wires(elems) == [i \in 1..Len(elems) |-> WireValue(elems[i])]

\* `if countries:` and what follows it: the value of params["countries"].
ListParam(client, method, arg) ==
  IF arg.t = "none" \/ arg = List(<<>>) \/ arg = Str("") THEN Absent
  ELSE IF arg.t = "list"
  THEN IF ListFilterStyle(client, method) = "checked"
       THEN Str(Join(",", Wires(arg.v)))
       ELSE IF \E i \in 1..Len(arg.v) : ~arg.v[i].enum THEN Raised
       ELSE Str(Join(", ", Wires(arg.v)))
  ELSE arg

\* How a method includes fund_id: "truthy" is `if fund_id:`, "is_not_none" is
\* `if fund_id is not None:`, "none" marks a method without the parameter.
NumericStyle(client, method) ==
  IF client = "sync"
  THEN IF method \in {"get_fund_performances", "get_commitment_deals", "get_people"}
       THEN "truthy" ELSE "none"
  ELSE IF method \in {"get_fund_performances", "get_commitment_deals"}
       THEN "is_not_none" ELSE "none"

NumericParam(client, method, arg) ==
  IF arg.t = "none" THEN Absent
  ELSE IF NumericStyle(client, method) = "truthy" /\ arg.v = 0 THEN Absent
  ELSE arg

\* Whether a method has the free-text filter `query`, which it includes by
\*   if query: params["query"] = query
\* ("truthy"), or has no such parameter ("none").
QueryStyle(client, method) ==
  IF client = "sync" /\ method = "get_fund_performances" THEN "none"
  ELSE IF client = "async" /\ method = "get_people" THEN "none"
  ELSE "truthy"

QueryParam(client, method, arg) ==
  IF arg.t = "none" \/ arg = Str("") THEN Absent ELSE arg

\* get_companies' female_founder, included `if female_founder is not None`:
\* the sync client sends str(female_founder).lower(), the async client
\* "1" if female_founder else "0".
FemaleFounderParam(client, arg) ==
  IF arg.t = "none" THEN Absent
  ELSE IF client = "sync" THEN Str(IF arg.v THEN "true" ELSE "false")
  ELSE Str(IF arg.v THEN "1" ELSE "0")

\* The path a list method requests.
Path(client, method) ==
  CASE method = "get_companies" -> "/api/v2/companies"
    [] method = "get_investors" -> "/api/v2/investors"
    [] method = "get_directors" -> "/api/v2/directors"
    [] method = "get_founders" -> "/api/v2/founders"
    [] method = "get_auditors" -> "/api/v2/auditors"
    [] method = "get_capital_providers" -> "/api/v2/capital-providers"
    [] method = "get_funds" -> "/api/v2/funds/"
    [] method = "get_fund_performances" -> "/api/v2/fund-performances/"
    [] method = "get_commitment_deals" -> "/api/v2/commitment-deals/"
    [] method = "get_people" -> "/api/v2/people/"
    [] OTHER -> "/api/v2/capital-providers/{capital_provider_id}/"

\* The params a list method builds from its arguments.
BuildParams(req) ==
  [limit |-> IF req.client = "async"
             THEN AsyncLimitParam(req.method, req.limit)
             ELSE SyncLimitParam(req.method, req.limit),
   offset |-> req.offset,
   order_by |-> OrderByParam(req.client, req.method, req.order_by),
   countries |-> ListParam(req.client, req.method, req.countries),
   fund_id |-> NumericParam(req.client, req.method, req.fund_id),
   query |-> QueryParam(req.client, req.method, req.query),
   female_founder |-> FemaleFounderParam(req.client, req.female_founder)]

\* Building params raised AttributeError.
ParamsRaise(p) == p.order_by.t = "raised" \/ p.countries.t = "raised"

\* The single-entity methods other than get_capital_provider_by_id: they take
\* an identifier, pass no query parameters, and decode the response into a
\* wrapper whose `data` is the entity (both clients have all of them).
SingleMethods ==
  {"get_company_by_id", "get_company_by_uen", "get_company_financials_by_id",
   "get_company_financials_by_uen", "get_investor_by_id", "get_director_by_id",
   "get_founder_by_id", "get_auditor_by_id", "get_fund_by_id",
   "get_fund_performance_by_id", "get_commitment_deal_by_id", "get_person_by_id"}

\* The path a single-entity method requests, written with the identifier's
\* placeholder.
SinglePath(method) ==
  CASE method = "get_company_by_id" -> "/api/v2/companies/{company_id}"
    [] method = "get_company_by_uen" -> "/api/v2/companies/{company_uen}/uen"
    [] method = "get_company_financials_by_id" -> "/api/v2/companies/{company_id}/financials"
    [] method = "get_company_financials_by_uen" -> "/api/v2/companies/{company_uen}/uen/financials"
    [] method = "get_investor_by_id" -> "/api/v2/investors/{investor_id}"
    [] method = "get_director_by_id" -> "/api/v2/directors/{director_id}"
    [] method = "get_founder_by_id" -> "/api/v2/founders/{founder_id}"
    [] method = "get_auditor_by_id" -> "/api/v2/auditors/{auditor_id}"
    [] method = "get_fund_by_id" -> "/api/v2/funds/{fund_id}"
    [] method = "get_fund_performance_by_id" -> "/api/v2/fund-performances/{fund_performance_id}"
    [] method = "get_commitment_deal_by_id" -> "/api/v2/commitment-deals/{deal_id}"
    [] OTHER -> "/api/v2/people/{person_id}"

\* The responses a single-entity request is answered with.
SingleStatuses == {200, 401, 404, 422, 429, 500}
SingleBodies ==
  {NoBody,
   [json |-> FALSE, isdict |-> FALSE, errors |-> [t |-> "absent"],
    message |-> [t |-> "absent"], text |-> "raw text"],
   [json |-> TRUE, isdict |-> TRUE, errors |-> [t |-> "str", v |-> "E"],
    message |-> [t |-> "str", v |-> "M"], text |-> "{json}"]}
SingleData == {"item", "null", "notjson"}

\* The arguments the methods are called with.
Limits == {1, 50, 100, 101, 500}
Offsets == {0, 20, 150}
CategoryArgs == CapitalProviderCategory \cup {PlainStr("fund-manager"), PlainStr("x"), PlainStr("invalid-category")}

OrderByArgs == {NotGiven, OrderByMember, PlainStr("first_name"), PlainStr("")}
QueryArgs == {PyNone, Str(""), Str("acme")}
FemaleFounderArgs == {PyNone, Bool(TRUE), Bool(FALSE)}
CountriesArgs ==
  {PyNone, List(<<SGP, MYS>>), List(<<PlainStr("SGP"), PlainStr("MYS")>>),
   List(<<SGP>>), Str("SGP,MYS")}
FundIdArgs == {PyNone, Int_(0), Int_(7)}

Requests ==
  UNION {[client : {cl}, method : {m}, limit : Limits, offset : Offsets,
          category : {PlainStr("")}, order_by : OrderByArgs,
          countries : IF ListFilterStyle(cl, m) = "none" THEN {PyNone} ELSE CountriesArgs,
          fund_id : IF NumericStyle(cl, m) = "none" THEN {PyNone} ELSE FundIdArgs,
          query : IF QueryStyle(cl, m) = "none" THEN {PyNone} ELSE QueryArgs,
          female_founder : IF m = "get_companies" THEN FemaleFounderArgs ELSE {PyNone}] :
         cl \in {"sync", "async"}, m \in ListMethods}
  \cup [client : {"sync", "async"}, method : {"get_capital_provider_by_id"},
        limit : {100}, offset : {0}, category : CategoryArgs,
        order_by : {NotGiven}, countries : {PyNone}, fund_id : {PyNone},
        query : {PyNone}, female_founder : {PyNone}]
  \cup [client : {"sync", "async"}, method : SingleMethods,
        limit : {100}, offset : {0}, category : {PlainStr("")},
        order_by : {NotGiven}, countries : {PyNone}, fund_id : {PyNone},
        query : {PyNone}, female_founder : {PyNone}]

InitResource ==
  /\ CallersAtRest
  /\ ClassifyAtRest
  /\ AuxAtRest
  /\ request \in Requests
  /\ path = ""
  /\ params = <<>>
  /\ attempts = 0
  /\ answer = "pending"
  /\ phase = "called"
  /\ served = NoCall
  /\ error = NoError
  /\ returned = NoResult

\* The status the server answers a resource request with: 422 for a category
\* it does not accept, otherwise any of a success, not-found or server error.
ServerStatuses(method, query) ==
  IF method = "get_capital_provider_by_id" /\ query.category \notin ServerCategories
  THEN {422}
  ELSE {200, 404, 500}

\* The response a resource request is answered with: its status, its body as
\* the classifier reads it, and what the "data" member of a success body is
\* ("item": what the wrapper's model accepts; "null"; "notjson": no JSON).
Served(status_code, body, data) == [status_code |-> status_code, body |-> body, data |-> data]

\* XResponse(**response.json()): the wrapper a method returns.
Wrapper(data) == [t |-> "wrapper", data |-> data]

\* A list method: params is built from the arguments, which raises
\* AttributeError where .value is taken of a plain str; otherwise
\* self._http_client.get is called once, and its response is decoded or its
\* typed error propagates.
ListCall(status_code) ==
  /\ phase = "called"
  /\ request.method \in ListMethods
  /\ LET p == BuildParams(request)
     IN  IF ParamsRaise(p)
         THEN /\ params' = [p EXCEPT !.order_by = Absent, !.countries = Absent,
                                     !.fund_id = Absent]
              /\ path' = ""
              /\ status_code = 200
              /\ attempts' = 0
              /\ answer' = "AttributeError"
              /\ served' = NoCall
              /\ error' = [kind |-> "AttributeError"]
              /\ returned' = NoResult
         ELSE /\ params' = p
              /\ path' = Path(request.client, request.method)
              /\ status_code \in ServerStatuses(request.method, params')
              /\ attempts' = 1
              /\ served' = Served(status_code, NoBody, "item")
              /\ LET r == HandleResponse([status_code |-> status_code, body |-> NoBody])
                 IN  /\ answer' = IF r.raises THEN r.error.kind ELSE "ok"
                     /\ error' = IF r.raises THEN r.error ELSE NoError
                     /\ returned' = IF r.raises THEN NoResult ELSE Wrapper("list")
  /\ phase' = "done"
  /\ UNCHANGED <<request, callerVars, classifyVars, auxVars>>

\* get_capital_provider_by_id (lines 397-407 / client.py 379-389): params holds
\* the category's wire value, self._http_client.get is called once, and its
\* response is decoded or its typed error propagates.
GetCapitalProviderById(status_code) ==
  /\ phase = "called"
  /\ request.method = "get_capital_provider_by_id"
  /\ params' = [category |-> WireValue(request.category)]
  /\ path' = Path(request.client, request.method)
  /\ status_code \in ServerStatuses(request.method, params')
  /\ attempts' = 1
  /\ served' = Served(status_code, NoBody, "item")
  /\ LET r == HandleResponse([status_code |-> status_code, body |-> NoBody])
     IN  /\ answer' = IF r.raises THEN r.error.kind ELSE "ok"
         /\ error' = IF r.raises THEN r.error ELSE NoError
         /\ returned' = IF r.raises THEN NoResult ELSE Wrapper("item")
  /\ phase' = "done"
  /\ UNCHANGED <<request, callerVars, classifyVars, auxVars>>

\* XResponse(**response.json()) of a single-entity method: response.json()
\* raises on a body that is no JSON, and the wrapper's model, whose `data` is
\* required and not Optional, rejects a null item.
DecodeSingle(data) ==
  IF data = "item" THEN [raises |-> FALSE, value |-> Wrapper("item")]
  ELSE IF data = "null" THEN [raises |-> TRUE, error |-> [kind |-> "pydantic.ValidationError"]]
  ELSE [raises |-> TRUE, error |-> [kind |-> "JSONDecodeError"]]

\* GetById that catches NotFoundError and returns a wrapper with a null item.
GetById_NullOn404(status_code, body, data) ==
  /\ phase = "called"
  /\ request.method \in SingleMethods
  /\ path' = SinglePath(request.method)
  /\ params' = <<>>
  /\ attempts' = 1
  /\ served' = Served(status_code, body, data)
  /\ LET r == HandleResponse([status_code |-> status_code, body |-> body])
         d == DecodeSingle(data)
     IN  /\ token' = IF r.clears THEN None ELSE token
         /\ invalidated' = (invalidated \/ r.clears)
         /\ IF r.raises /\ status_code = 404
            THEN error' = NoError /\ returned' = Wrapper("null") /\ answer' = "ok"
            ELSE IF r.raises
            THEN error' = r.error /\ returned' = NoResult /\ answer' = r.error.kind
            ELSE IF d.raises
            THEN error' = d.error /\ returned' = NoResult /\ answer' = d.error.kind
            ELSE error' = NoError /\ returned' = d.value /\ answer' = "ok"
  /\ phase' = "done"
  /\ UNCHANGED <<request, classifyVars, auxVars>>
  /\ UNCHANGED <<mode, serial, log_enabled, token_lock, running, pc, tok, authHdr, resp,
                 outcome, nReq, nExch, nLog, follow, calls, exchSent, issued,
                 exchFailed, exchAborted, lateCall, after401>>

\* A single-entity method (get_company_by_id, lines 162-165, and its like):
\* self._http_client.get(path) is called once with no params; a failure
\* response leaves as the typed error _handle_response raises (a 401 having
\* cleared the token); a success response is decoded into the wrapper, or the
\* decoding raises.
GetById(status_code, body, data) ==
  /\ phase = "called"
  /\ request.method \in SingleMethods
  /\ path' = SinglePath(request.method)
  /\ params' = <<>>
  /\ attempts' = 1
  /\ served' = Served(status_code, body, data)
  /\ LET r == HandleResponse([status_code |-> status_code, body |-> body])
         d == DecodeSingle(data)
     IN  /\ token' = IF r.clears THEN None ELSE token
         /\ invalidated' = (invalidated \/ r.clears)
         /\ IF r.raises
            THEN error' = r.error /\ returned' = NoResult /\ answer' = r.error.kind
            ELSE IF d.raises
            THEN error' = d.error /\ returned' = NoResult /\ answer' = d.error.kind
            ELSE error' = NoError /\ returned' = d.value /\ answer' = "ok"
  /\ phase' = "done"
  /\ UNCHANGED <<request, classifyVars, auxVars>>
  /\ UNCHANGED <<mode, serial, log_enabled, token_lock, running, pc, tok, authHdr, resp,
                 outcome, nReq, nExch, nLog, follow, calls, exchSent, issued,
                 exchFailed, exchAborted, lateCall, after401>>

NextResource ==
  \/ \E status_code \in {200, 404, 422, 500} : ListCall(status_code)
  \/ \E status_code \in {200, 404, 422, 500} : GetCapitalProviderById(status_code)
  \/ \E status_code \in SingleStatuses, body \in SingleBodies, data \in SingleData :
       GetById(status_code, body, data)

SpecResource == InitResource /\ [][NextResource]_vars

\* ------------------------------------------- _redact and _build_log_entry
\* "***REDACTED***"
Marker == Str("***REDACTED***")

\* sensitive = {"authorization", "client_secret", "client_id", "token"}
sensitive == {"authorization", "client_secret", "client_id", "token"}

\* str.lower() on the key strings that occur.
Lower(s) ==
  CASE s = "Authorization" -> "authorization"
    [] s = "TOKEN" -> "token"
    [] s = "Client_Id" -> "client_id"
    [] s = "CLIENT_SECRET" -> "client_secret"
    [] s = "Content-Type" -> "content-type"
    [] s = "Accept" -> "accept"
    [] OTHER -> s

\* _redact (lines 54-63). The dict comprehension evaluates k.lower() for every
\* key, and self._redact(v) for the value of every key that is not sensitive;
\* a list is mapped element by element; every other value (a tuple too) is
\* returned as it is.
RECURSIVE Redact(_)
Redact(o) ==
  IF o.t = "dict" THEN
    IF \E i \in 1..Len(o.v) : o.v[i].k.t # "str" THEN Raised
    ELSE LET vals == [i \in 1..Len(o.v) |->
                        IF Lower(o.v[i].k.v) \in sensitive THEN Marker
                        ELSE Redact(o.v[i].val)]
         IN  IF \E i \in 1..Len(o.v) : vals[i].t = "raised" THEN Raised
             ELSE Dict([i \in 1..Len(o.v) |-> Item(o.v[i].k, vals[i])])
  ELSE IF o.t = "list" THEN
    LET vals == [i \in 1..Len(o.v) |-> Redact(o.v[i])]
    IN  IF \E i \in 1..Len(o.v) : vals[i].t = "raised" THEN Raised
        ELSE List(vals)
  ELSE o

\* The values _redact is tried on: leaves, and containers of one or two
\* members nested to depth RedactDepth.
RedactDepth == 2
KeyStrings == {"token", "TOKEN", "Authorization", "client_secret", "Client_Id", "name", "tokens"}
Keys == {Str(k) : k \in KeyStrings} \cup {Int_(1)}
Leaves == {Str("v"), Str("abc"), Marker, Int_(2)}
Containers(V) ==
  {Dict(<<>>), List(<<>>)}
  \cup {Dict(<<Item(k, x)>>) : k \in Keys, x \in V}
  \cup {Dict(<<Item(Str("name"), x), Item(k, y)>>) :
          k \in Keys \ {Str("name")}, x \in Leaves, y \in Leaves}
  \cup {List(<<x>>) : x \in V}
  \cup {List(<<x, y>>) : x \in Leaves, y \in Leaves}
  \cup {Tuple(<<x>>) : x \in V}
RECURSIVE ValuesTo(_)
ValuesTo(d) == IF d = 0 THEN Leaves ELSE Leaves \cup Containers(ValuesTo(d - 1))
Values == ValuesTo(RedactDepth)

\* The credentials of the client and the strings that hold one of them.
ClientId == "my-id"
ClientSecret == "abc"
BearerToken == "tok"
SecretsIn(s) ==
  CASE s = ClientId -> {"client_id"}
    [] s = ClientSecret -> {"client_secret"}
    [] s = BearerToken -> {"token"}
    [] s = "Bearer tok" -> {"token"}
    [] s = "token tok was rejected" -> {"token"}
    [] OTHER -> {}

\* The credentials that occur anywhere in a value, hence in the line
\* json.dumps writes for it.
RECURSIVE Secrets(_)
Secrets(o) ==
  IF o.t = "str" THEN SecretsIn(o.v)
  ELSE IF o.t = "dict"
    THEN UNION {Secrets(o.v[i].k) \cup Secrets(o.v[i].val) : i \in 1..Len(o.v)}
  ELSE IF o.t \in {"list", "tuple"}
    THEN UNION {Secrets(o.v[i]) : i \in 1..Len(o.v)}
  ELSE {}

\* A response as _build_log_entry reads it: its status code, what
\* response.json() returns (NotJson: it raises) and response.text.
NotJson == [t |-> "notjson"]
Response(status_code, json, text) ==
  [status_code |-> status_code, json |-> json, text |-> text]

\* `x or {}`
OrEmpty(x) == IF x.t = "none" \/ x = Dict(<<>>) THEN Dict(<<>>) ELSE x

\* _build_log_entry (lines 65-99)
BuildLogEntry(a) ==
  LET response_json == IF a.response.json = NotJson THEN PyNone ELSE a.response.json
      response_text == IF a.response.json = NotJson THEN Str(a.response.text) ELSE PyNone
      p == Redact(OrEmpty(a.params))
      d == Redact(OrEmpty(a.data))
      h == Redact(OrEmpty(a.headers))
      j == IF response_json.t # "none" THEN Redact(response_json) ELSE PyNone
  IN  IF "raised" \in {p.t, d.t, h.t, j.t} THEN Raised
      ELSE Dict(<<
        Item(Str("timestamp"), Str("2024-01-01T00:00:00+00:00")),
        Item(Str("method"), Str(a.method)),
        Item(Str("url"), Str(a.url)),
        Item(Str("request"), Dict(<<Item(Str("params"), p), Item(Str("data"), d),
                                   Item(Str("headers"), h)>>)),
        Item(Str("response"), Dict(<<
          Item(Str("status_code"), Int_(a.response.status_code)),
          Item(Str("json"), j),
          Item(Str("text"), IF response_json.t = "none" THEN response_text ELSE PyNone)>>))>>)

\* The record _get_token logs after a successful exchange (lines 206-218):
\* the form data holds the credentials, the body is the token response.
TokenBodies ==
  {Dict(<<Item(Str("token"), Str(BearerToken))>>),
   Dict(<<Item(Str("token"), Str(BearerToken)), Item(Str("type"), Str("Bearer"))>>)}
ExchangeLogArgs ==
  {[method |-> "POST", url |-> "/api/v2/oauth/token", params |-> PyNone,
    data |-> Dict(<<Item(Str("client_id"), Str(ClientId)),
                    Item(Str("client_secret"), Str(ClientSecret))>>),
    headers |-> Dict(<<Item(Str("Content-Type"),
                            Str("application/x-www-form-urlencoded"))>>),
    response |-> Response(200, b, "{json}")] : b \in TokenBodies}

\* The records _make_request logs (lines 250-260): the caller's params and
\* data, the headers with the Authorization header of line 241, and whatever
\* the server answered.
RequestParams == {PyNone, Dict(<<Item(Str("limit"), Int_(100))>>)}
RequestData ==
  {PyNone,
   Dict(<<Item(Str("name"), Str("v"))>>),
   Dict(<<Item(Str("a"), Dict(<<Item(Int_(1), Int_(2))>>))>>),
   Dict(<<Item(Str("items"), Tuple(<<Dict(<<Item(Str("token"), Str(BearerToken))>>)>>))>>)}
RequestHeaders ==
  {Dict(<<Item(Str("Accept"), Str("application/json")),
          Item(Str("Authorization"), Str("Bearer tok"))>>)}
Responses ==
  {Response(200, Dict(<<Item(Str("data"), List(<<Str("v")>>))>>), "{json}"),
   Response(200, PyNone, "null"),
   Response(401, Dict(<<Item(Str("message"), Str("token tok was rejected"))>>), "{json}"),
   Response(401, NotJson, "token tok was rejected"),
   Response(404, NotJson, ""),
   Response(500, NotJson, "v")}
RequestLogArgs ==
  [method : {"GET", "POST"}, url : {"/api/v2/companies/"}, params : RequestParams,
   data : RequestData, headers : RequestHeaders, response : Responses]
LogArgs == ExchangeLogArgs \cup RequestLogArgs

InitLog ==
  /\ CallersAtRest
  /\ ClassifyAtRest
  /\ ResourceAtRest
  /\ ConstructAtRest
  /\ ExchangeAtRest
  /\ HeadersAtRest
  /\ redacted = Pending
  /\ entry = Pending
  /\ \/ obj \in Values /\ logArgs = NoCall
     \/ obj = NoCall /\ logArgs \in LogArgs

\* _redact(obj) is called.
RedactCall ==
  /\ obj # NoCall
  /\ redacted = Pending
  /\ redacted' = Redact(obj)
  /\ UNCHANGED <<obj, logArgs, entry, callerVars, classifyVars, resourceVars, constructVars, exchangeVars, headerVars>>

\* _build_log_entry(**logArgs) is called.
BuildLogEntryCall ==
  /\ logArgs # NoCall
  /\ entry = Pending
  /\ entry' = BuildLogEntry(logArgs)
  /\ UNCHANGED <<obj, redacted, logArgs, callerVars, classifyVars, resourceVars, constructVars, exchangeVars, headerVars>>

NextLog == RedactCall \/ BuildLogEntryCall

SpecLog == InitLog /\ [][NextLog]_vars

\* ------------------------------------------------- BaseHTTPClient.__init__
\* `if x:` / `not x` on a str | None: None and "" are false.
Truthy(x) == x.t = "str" /\ x.v # ""

\* The values a credential argument or configuration field is tried with.
ArgValues == {PyNone, Str(""), Str("arg")}
EnvValues == {PyNone, Str(""), Str("env")}

InitConstruct ==
  /\ CallersAtRest
  /\ ClassifyAtRest
  /\ ResourceAtRest
  /\ LogAtRest
  /\ ExchangeAtRest
  /\ HeadersAtRest
  /\ ctorArgs \in [client_id : ArgValues, client_secret : ArgValues]
  /\ env \in [client_id : EnvValues, client_secret : EnvValues, log_requests : BOOLEAN]
  /\ config = env
  /\ constructed = Pending

\* Construct without the credentials check of lines 44-45.
Construct_NoCheck ==
  /\ constructed = Pending
  /\ ctorArgs # NoCall
  /\ config' = [config EXCEPT
       !.client_id = IF Truthy(ctorArgs.client_id) THEN ctorArgs.client_id ELSE @,
       !.client_secret = IF Truthy(ctorArgs.client_secret) THEN ctorArgs.client_secret ELSE @]
  /\ constructed' = [ok |-> TRUE, token |-> None, log_enabled |-> config'.log_requests]
  /\ UNCHANGED <<ctorArgs, env, callerVars, classifyVars, resourceVars, logVars, exchangeVars, headerVars>>

\* BaseHTTPClient.__init__ (lines 29-52): explicit arguments that are not
\* empty override the configuration (lines 39-42); the client is built only
\* if both fields are then non-empty (lines 44-45), with no token cached.
Construct ==
  /\ constructed = Pending
  /\ ctorArgs # NoCall
  /\ config' = [config EXCEPT
       !.client_id = IF Truthy(ctorArgs.client_id) THEN ctorArgs.client_id ELSE @,
       !.client_secret = IF Truthy(ctorArgs.client_secret) THEN ctorArgs.client_secret ELSE @]
  /\ constructed' =
       IF ~Truthy(config'.client_id) \/ ~Truthy(config'.client_secret)
       THEN [ok |-> FALSE, error |-> "ValueError"]
       ELSE [ok |-> TRUE, token |-> None, log_enabled |-> config'.log_requests]
  /\ UNCHANGED <<ctorArgs, env, callerVars, classifyVars, resourceVars, logVars, exchangeVars, headerVars>>

NextConstruct == Construct

SpecConstruct == InitConstruct /\ [][NextConstruct]_vars

\* ------------------------------------------- _get_token, one call alone
\* The token endpoint's answer as _get_token reads it: the status code,
\* whether TokenResponse(**response.json()) finds a token in the body
\* ("valid"), finds none ("invalid") or the body is no JSON ("notjson"), and
\* response.text.
ExchangeStatuses == {200, 201, 204, 301, 400, 401, 404, 422, 429, 500, 503}
ExchangeResponses ==
  [status_code : ExchangeStatuses, tokenBody : {"valid", "invalid", "notjson"},
   text : {"", "denied"}]

\* ExchangeResult that takes every 2xx status for a success.
ExchangeResult_Any2xx(r) ==
  IF IsSuccess(r.status_code)
  THEN IF r.tokenBody = "valid"
       THEN [raises |-> FALSE, caches |-> TRUE]
       ELSE [raises |-> TRUE, caches |-> FALSE, kind |-> "DecodeError", message |-> <<>>]
  ELSE IF r.status_code = 422
  THEN [raises |-> TRUE, caches |-> FALSE, kind |-> "AuthenticationError",
        message |-> <<"Invalid client credentials">>]
  ELSE [raises |-> TRUE, caches |-> FALSE, kind |-> "AuthenticationError",
        message |-> <<"Authentication failed: ", r.text>>]

\* Lines 203-223 / 355-375: what _get_token makes of the answer. Only status
\* 200 is a success, and then only if the body holds a token; 422 raises
\* AuthenticationError("Invalid client credentials"); every other status
\* raises AuthenticationError(f"Authentication failed: {response.text}").
ExchangeResult(r) ==
  IF r.status_code = 200
  THEN IF r.tokenBody = "valid"
       THEN [raises |-> FALSE, caches |-> TRUE]
       ELSE [raises |-> TRUE, caches |-> FALSE, kind |-> "DecodeError", message |-> <<>>]
  ELSE IF r.status_code = 422
  THEN [raises |-> TRUE, caches |-> FALSE, kind |-> "AuthenticationError",
        message |-> <<"Invalid client credentials">>]
  ELSE [raises |-> TRUE, caches |-> FALSE, kind |-> "AuthenticationError",
        message |-> <<"Authentication failed: ", r.text>>]

InitExchange ==
  /\ CallersAtRest
  /\ ClassifyAtRest
  /\ ResourceAtRest
  /\ LogAtRest
  /\ ConstructAtRest
  /\ HeadersAtRest
  /\ exchResponse \in ExchangeResponses
  /\ exchResult = Pending

\* One call of _get_token with no other caller (lines 183-223 / 335-375): a
\* cached token is returned at once; otherwise the exchange is posted and the
\* POST raises (transportFails) or is answered with exchResponse.
GetTokenCall(transportFails) ==
  /\ exchResponse # NoCall
  /\ exchResult = Pending
  /\ IF token # None
     THEN /\ exchResult' = [posted |-> FALSE, raises |-> FALSE, returned |-> token]
          /\ UNCHANGED <<token, issued, exchSent, exchFailed>>
     ELSE /\ exchSent' = exchSent + 1
          /\ IF transportFails
             THEN /\ exchResult' = [posted |-> TRUE, answered |-> FALSE, raises |-> TRUE,
                                    kind |-> "TransportError", message |-> <<>>]
                  /\ exchFailed' = TRUE
                  /\ UNCHANGED <<token, issued>>
             ELSE LET r == ExchangeResult(exchResponse)
                  IN  IF r.caches
                      THEN /\ token' = issued + 1
                           /\ issued' = issued + 1
                           /\ exchFailed' = exchFailed
                           /\ exchResult' = [posted |-> TRUE, answered |-> TRUE,
                                             raises |-> FALSE, returned |-> token']
                      ELSE /\ exchFailed' = TRUE
                           /\ UNCHANGED <<token, issued>>
                           /\ exchResult' = [posted |-> TRUE, answered |-> TRUE,
                                             raises |-> TRUE, kind |-> r.kind,
                                             message |-> r.message]
  /\ UNCHANGED <<exchResponse, classifyVars, resourceVars, logVars, constructVars, headerVars>>
  /\ UNCHANGED <<mode, serial, log_enabled, token_lock, running, pc, tok, authHdr, resp,
                 outcome, nReq, nExch, nLog, follow, calls, exchAborted, invalidated,
                 lateCall, after401>>

NextExchange == \E transportFails \in BOOLEAN : GetTokenCall(transportFails)

SpecExchange == InitExchange /\ [][NextExchange]_vars

\* ------------------------------------- _make_request, the request headers
\* d[k] = v on a dict: the value of an existing key is replaced in place, a
\* new key is added at the end. Keys are compared as Python compares str:
\* exactly, case included.
DictSet(d, k, val) ==
  IF \E i \in 1..Len(d.v) : d.v[i].k = k
  THEN Dict([i \in 1..Len(d.v) |-> IF d.v[i].k = k THEN Item(k, val) ELSE d.v[i]])
  ELSE Dict(Append(d.v, Item(k, val)))

\* d.update(other)
RECURSIVE DictUpdate(_, _)
DictUpdate(d, other) ==
  IF Len(other.v) = 0 THEN d
  ELSE DictUpdate(DictSet(d, other.v[1].k, other.v[1].val), Dict(Tail(other.v)))

\* f"Bearer {token}"
Bearer(t) == Str("Bearer " \o t)

\* Lines 235-241 / 387-393: request_headers starts as the Accept default, is
\* updated with the caller's headers if there are any, and, for an
\* authenticated call, gets "Authorization" set from the token.
BuildRequestHeaders(a) ==
  LET base == Dict(<<Item(Str("Accept"), Str("application/json"))>>)
      merged == IF a.headers.t = "none" \/ a.headers = Dict(<<>>) THEN base
                ELSE DictUpdate(base, a.headers)
  IN  IF a.authenticated
      THEN DictSet(merged, Str("Authorization"), Bearer(a.token))
      ELSE merged

\* The headers a caller passes: none, or one or two entries.
HeaderNames == {"Accept", "Authorization", "authorization", "x-trace"}
HeaderValues == {"text/csv", "Bearer mine"}
CallerHeaders ==
  {PyNone, Dict(<<>>)}
  \cup {Dict(<<Item(Str(k), Str(x))>>) : k \in HeaderNames, x \in HeaderValues}
  \cup {d \in {Dict(<<Item(Str(k), Str(x)), Item(Str(l), Str(y))>>) :
                  k \in HeaderNames, l \in HeaderNames,
                  x \in HeaderValues, y \in HeaderValues} : d.v[1].k # d.v[2].k}

InitHeaders ==
  /\ CallersAtRest
  /\ ClassifyAtRest
  /\ ResourceAtRest
  /\ LogAtRest
  /\ ConstructAtRest
  /\ ExchangeAtRest
  /\ hdrArgs \in [headers : CallerHeaders, authenticated : BOOLEAN,
                   token : {BearerToken, "tok2"}]
  /\ sentHeaders = Pending

\* _make_request builds request_headers and hands them to the transport.
MakeRequestHeaders ==
  /\ hdrArgs # NoCall
  /\ sentHeaders = Pending
  /\ sentHeaders' = BuildRequestHeaders(hdrArgs)
  /\ UNCHANGED <<hdrArgs, callerVars, classifyVars, resourceVars, logVars,
                 constructVars, exchangeVars>>

NextHeaders == MakeRequestHeaders

SpecHeaders == InitHeaders /\ [][NextHeaders]_vars

\* ------------------------------------------------------------ the claims
\* Positions after _get_token has returned to _make_request.
PostTokenPcs == {"send", "rq_wait", "rq_log", "rq_handle", "h_raise"}

\* The call's token acquisition returned (it went on to send, or has sent).
Acquired(c) == pc[c] \in PostTokenPcs \/ (pc[c] = "done" /\ nReq[c] >= 1)

\* Every call so far entered _make_request before any credential exchange
\* had been answered, and no 401 has invalidated the cache: the callers invoke
\* token acquisition concurrently, with no cached token.
ConcurrentFirstAcquisition == ~lateCall /\ ~invalidated

ReauthAfter401 ==
  /\ \A c \in Callers : pc[c] = "h_raise" => token = None
  /\ \A c \in Callers :
       follow[c] => (nExch[c] <= 1 /\ (Acquired(c) => nExch[c] = 1))

\* C2 as stated: when a call raises AuthenticationError on a 401 the cache is
\* empty, and the call started next performs exactly one credential exchange
\* before it sends its request.
C2_ReauthAfter401 == ReauthAfter401

\* C2 amended: the same where calls are issued one after another (no other
\* caller's call overlaps); the cache then also stays empty until that next
\* call, which performs its one exchange whether or not it goes on to send.
C2_ReauthAfter401Serial ==
  serial =>
    /\ ReauthAfter401
    /\ after401 => token = None
    /\ \A c \in Callers :
         (follow[c] /\ pc[c] \in PostTokenPcs \cup {"done"}) => nExch[c] = 1

\* C2 witness: calls are issued one after another, and the call that follows
\* a 401 has performed one exchange and sent its request with the token that
\* exchange cached.
C2_Witness ==
  \E c \in Callers :
    /\ serial /\ follow[c] /\ pc[c] = "rq_wait"
    /\ nExch[c] = 1 /\ nReq[c] = 1
    /\ token # None /\ authHdr[c] = token

\* C3: every value _get_token returns is a token issued by a completed
\* successful exchange, and every request carries Authorization: Bearer <such
\* a token>; no caller sends a request with an absent token.
C3_NeverAbsentToken ==
  \A c \in Callers :
    /\ pc[c] \in PostTokenPcs => tok[c] \in 1..issued
    /\ nReq[c] >= 1 => authHdr[c] \in 1..issued

\* C4: a cancelled caller leaves the cache empty or holding an issued token
\* and the lock released, and an exchange that was in flight when its caller
\* was cancelled is not abandoned: it still completes for the other callers.
C4_CancelKeepsExchange ==
  /\ token \in 0..issued
  /\ \A c \in Callers : pc[c] = "done" => token_lock # c
  /\ ~exchAborted

\* C4, the part the code keeps: the cache is empty or holds an issued token,
\* and no finished (returned, failed or cancelled) call holds the lock.
C4_CacheAndLockIntact ==
  /\ token \in 0..issued
  /\ \A c \in Callers : pc[c] = "done" => token_lock # c

\* C9: one executor call sends at most one resource request and at most one
\* credential exchange; once a response has arrived the call only logs,
\* classifies and ends (no re-authentication, no resend, whatever max_retries
\* is); a 401 that reaches the classifier ends the call with
\* AuthenticationError, and no failure status ends it with a result.
C9_OneAttemptPerCall ==
  \A c \in Callers :
    /\ nReq[c] <= 1
    /\ nExch[c] <= 1
    /\ resp[c] # None => pc[c] \in {"rq_log", "rq_handle", "h_raise", "done"}
    /\ pc[c] = "h_raise" => resp[c] = 401
    /\ (pc[c] = "done" /\ resp[c] = 401) =>
         outcome[c] \in {"AuthenticationError", "LogError", "CancelledError"}
    /\ (pc[c] = "done" /\ outcome[c] = "ok") => resp[c] = 200

\* C9 witness: a call answered 401 has raised AuthenticationError after one
\* request and one exchange.
C9_Witness ==
  \E c \in Callers :
    /\ pc[c] = "done" /\ resp[c] = 401 /\ outcome[c] = "AuthenticationError"
    /\ nReq[c] = 1 /\ nExch[c] = 1

\* What _handle_response makes of a status: the call's outcome with logging
\* disabled.
ExpectedOutcome(status_code) ==
  LET r == HandleResponse([status_code |-> status_code, body |-> NoBody])
  IN  IF r.raises THEN r.error.kind ELSE "ok"

\* C10: with logging enabled, no failure of a logging step changes the call's
\* outcome: no call ends with the logging step's exception, and a call that
\* received a response ends as the classifier decides (unless cancelled).
C10_LoggingNeverChangesOutcome ==
  \A c \in Callers :
    pc[c] = "done" =>
      /\ outcome[c] # "LogError"
      /\ (resp[c] # None /\ outcome[c] # "CancelledError") =>
           outcome[c] = ExpectedOutcome(resp[c])

\* C11: with logging enabled, a call that has ended (with a response, a typed
\* error, an authentication failure of the exchange, or a transport failure)
\* has appended exactly one log record.
C11_OneRecordPerCall ==
  \A c \in Callers :
    (log_enabled /\ pc[c] = "done" /\ outcome[c] # "CancelledError") => nLog[c] = 1

\* C12: no log record holds the client secret, the client identifier or the
\* bearer token anywhere: not in the request params, data or headers, not in
\* the decoded response JSON, not in the raw response text.
C12_NoCredentialInRecord ==
  (entry # Pending /\ entry.t = "dict") => Secrets(entry) = {}

\* A key that equals, case-insensitively, one of the four sensitive names.
IsSensitiveKey(k) == k.t = "str" /\ Lower(k.v) \in sensitive

\* o is i with the value under every sensitive key, at every depth of dicts
\* and lists, replaced by the marker and everything else as it was.
RECURSIVE RedactedAs(_, _)
RedactedAs(i, o) ==
  IF i.t = "dict" THEN
    /\ o.t = "dict"
    /\ Len(o.v) = Len(i.v)
    /\ \A n \in 1..Len(i.v) :
         /\ o.v[n].k = i.v[n].k
         /\ IF IsSensitiveKey(i.v[n].k) THEN o.v[n].val = Marker
            ELSE RedactedAs(i.v[n].val, o.v[n].val)
  ELSE IF i.t = "list" THEN
    /\ o.t = "list"
    /\ Len(o.v) = Len(i.v)
    /\ \A n \in 1..Len(i.v) : RedactedAs(i.v[n], o.v[n])
  ELSE o = i

\* C13: _redact returns its argument with the value under every sensitive key
\* replaced by the marker at every depth of dicts and lists, every other key,
\* value and the structure unchanged, and redacting the result again changes
\* nothing.
C13_RedactReplacesSensitiveKeys ==
  (obj # NoCall /\ redacted # Pending) =>
    /\ RedactedAs(obj, redacted)
    /\ Redact(redacted) = redacted

\* The effective credential: the explicit argument when it is non-empty,
\* otherwise the configuration's value.
Effective(arg, configured) == IF arg.t = "str" /\ arg.v # "" THEN arg ELSE configured
NonEmpty(x) == x.t = "str" /\ x.v # ""

\* C14: construction succeeds if and only if the effective client identifier
\* and the effective client secret are both non-empty, and the client it
\* builds holds exactly those credentials; otherwise it raises.
C14_ConstructIffCredentials ==
  constructed # Pending =>
    LET id == Effective(ctorArgs.client_id, env.client_id)
        secret == Effective(ctorArgs.client_secret, env.client_secret)
    IN  /\ constructed.ok <=> (NonEmpty(id) /\ NonEmpty(secret))
        /\ constructed.ok => (config.client_id = id /\ config.client_secret = secret)

\* C14 witness: a client was built from an explicit identifier and the
\* environment's secret, the secret argument being empty.
C14_Witness ==
  /\ constructed # Pending
  /\ constructed.ok
  /\ ctorArgs.client_id = Str("arg")
  /\ ctorArgs.client_secret = Str("")
  /\ config.client_id = Str("arg")
  /\ config.client_secret = Str("env")

\* C15: a _get_token call that posts the exchange raises AuthenticationError
\* exactly when the endpoint answers with a status other than 200: "Invalid
\* client credentials" for 422, "Authentication failed: <body text>" for every
\* other one (other 2xx too); a token is cached only on a 200, and a failed
\* exchange caches nothing.
C15_AuthErrorIffNot200 ==
  (exchResult # Pending /\ exchResult.posted) =>
    /\ exchResult.answered =>
         /\ (exchResult.raises /\ exchResult.kind = "AuthenticationError")
              <=> exchResponse.status_code # 200
         /\ exchResponse.status_code = 422 =>
              exchResult.message = <<"Invalid client credentials">>
         /\ exchResponse.status_code \notin {200, 422} =>
              exchResult.message = <<"Authentication failed: ", exchResponse.text>>
    /\ token # None => (exchResult.answered /\ exchResponse.status_code = 200)
    /\ exchResult.raises => token = None

\* C15 witness: the endpoint answered 201 with a token in the body, and the
\* call raised the generic authentication failure and cached nothing.
C15_Witness ==
  /\ exchResult # Pending
  /\ exchResult.posted
  /\ exchResult.answered
  /\ exchResponse.status_code = 201
  /\ exchResponse.tokenBody = "valid"
  /\ exchResult.raises
  /\ exchResult.kind = "AuthenticationError"
  /\ exchResult.message = <<"Authentication failed: ", "denied">>
  /\ token = None

\* A step that changes the cache either stores the token of a successful
\* exchange into an empty cache, or is _handle_response clearing it on a 401.
CacheStep ==
  token' # token =>
    \/ token = None /\ issued' = issued + 1 /\ token' = issued'
    \/ /\ token' = None
       /\ \E c \in Callers :
            pc[c] = "rq_handle" /\ resp[c] = 401 /\ pc'[c] = "h_raise"

\* A call that found a token at its first check goes on without a network
\* call; where no other call overlaps it, what it returns is the cached token.
CachedTokenReturned ==
  \A c \in Callers :
    /\ pc[c] = "gt_ret1" => nExch[c] = 0
    /\ (serial /\ pc[c] = "send" /\ nExch[c] = 0) => (token # None /\ tok[c] = token)

\* C16: a cached token is returned without a network call, and the cache is
\* emptied only by a 401 response: no success, no other error response, no
\* transport or logging failure clears or replaces a cached token.
C16_CacheClearedOnlyBy401 == [][CacheStep]_vars /\ []CachedTokenReturned

\* C16 witness: after a call that ended in NotFoundError, the next call has
\* taken the cached token at the first check and performed no exchange.
C16_Witness ==
  \E c, d \in Callers :
    /\ c # d
    /\ pc[d] = "done" /\ outcome[d] = "NotFoundError"
    /\ pc[c] = "send" /\ nExch[c] = 0
    /\ token # None /\ tok[c] = token
    /\ ~invalidated

\* The callers whose credential exchange is in flight.
InFlight == {c \in Callers : pc[c] = "gt_wait"}

\* C17: at most one credential exchange is in flight at any moment, and the
\* caller it belongs to holds the lock.
C17_OneExchangeInFlight ==
  /\ Cardinality(InFlight) <= 1
  /\ \A c \in InFlight : token_lock = c

\* C17 witness: after a 401 has emptied the cache, one caller's exchange is
\* in flight while another caller, which also found the cache empty, waits
\* for the lock.
C17_Witness ==
  \E c, d \in Callers :
    /\ c # d
    /\ invalidated
    /\ pc[c] = "gt_wait"
    /\ pc[d] = "gt_lock"

\* The typed error's class the decision table gives a failure status.
TableKind(sc) ==
  CASE sc = 401 -> "AuthenticationError"
    [] sc = 404 -> "NotFoundError"
    [] sc = 422 -> "ValidationError"
    [] sc = 429 -> "RateLimitError"
    [] sc >= 500 /\ sc <= 599 -> "ServerError"
    [] OTHER -> "AltPEError"

\* C6: the classifier returns a 2xx response and raises, for every other
\* status, the class of the table: 401, 404, 422, 429, 500-599, and AltPEError
\* itself for every other status (1xx, 3xx, other 4xx, 600 and above).
C6_StatusTable ==
  result # Pending =>
    IF IsSuccess(response.status_code)
    THEN ~result.raises
    ELSE result.raises /\ result.error.kind = TableKind(response.status_code)

\* C7: every typed error the classifier raises carries the response's status
\* code as its status_code.
C7_StatusCodeCarried ==
  (result # Pending /\ result.raises) =>
    result.error.status_code = response.status_code

\* C5: when the server rejects the caller's category with 422 and accepts the
\* default category, get_capital_provider_by_id retries once with the default
\* and returns the result after exactly two requests; it never makes a third
\* request, and an accepted category is never retried.
C5_RetriesRejectedCategory ==
  (phase = "done" /\ request.method = "get_capital_provider_by_id") =>
    /\ attempts <= 2
    /\ IF WireValue(request.category) \in ServerCategories
       THEN attempts = 1
       ELSE answer = "ok" /\ attempts = 2

\* C8: every list method of both clients sends limit = min(limit, 100) and
\* offset unchanged.
C8_LimitClamped ==
  (phase = "done" /\ request.method \in ListMethods) =>
    /\ params.limit = Min(request.limit, MaxLimit)
    /\ params.offset = request.offset

\* The delimiters a joined list could be written with.
Delimiters == {",", ", "}

\* C18: a list given for a list-valued filter is sent as one string, its
\* elements in order joined by one delimiter, the same in every method and in
\* both clients.
C18_ListJoinedByOneDelimiter ==
  (/\ phase = "done"
   /\ request.method \in ListMethods
   /\ request.countries.t = "list"
   /\ answer # "AttributeError") =>
    \E d \in Delimiters :
      \A cl \in {"sync", "async"}, m \in ListMethods :
        LET v == ListParam(cl, m, request.countries)
        IN  (ListFilterStyle(cl, m) # "none" /\ v.t # "raised") =>
              v = Str(Join(d, Wires(request.countries.v)))

\* C19: a numeric filter the caller provides is in the query parameters with
\* the caller's value, 0 included.
C19_ZeroFilterSent ==
  (/\ phase = "done"
   /\ request.method \in ListMethods
   /\ request.fund_id.t = "int"
   /\ answer # "AttributeError") =>
    params.fund_id = request.fund_id

\* C20: the conversion of an enumerated argument never raises: an order_by
\* given as a member or as a plain string is sent as the member's wire value
\* or the string itself, and so is every element of a countries list.
C20_EnumConversionTotal ==
  (phase = "done" /\ request.method \in ListMethods) =>
    /\ answer # "AttributeError"
    /\ request.order_by # NotGiven =>
         params.order_by = Str(WireValue(request.order_by))
    /\ request.countries.t = "list" =>
         \E d \in Delimiters :
           params.countries = Str(Join(d, Wires(request.countries.v)))

\* The same call made on the other client.
Twin(req) == [req EXCEPT !.client = IF @ = "sync" THEN "async" ELSE "sync"]

\* Every filter the call passes is a parameter of the method in both clients.
SharedArguments(req) ==
  \A cl \in {"sync", "async"} :
    /\ req.countries # PyNone => ListFilterStyle(cl, req.method) # "none"
    /\ req.fund_id # PyNone => NumericStyle(cl, req.method) # "none"
    /\ req.query # PyNone => QueryStyle(cl, req.method) # "none"

\* C21: a list method that both clients have, called with the same argument
\* values (every one a parameter of the method in both clients), requests the
\* same path with the same query parameters in both: the same keys, and for
\* each key the same wire value (limit, joined lists and female_founder too).
C21_SyncAsyncSameRequest ==
  (/\ phase = "done"
   /\ request.method \in ListMethods
   /\ SharedArguments(request)
   /\ answer # "AttributeError") =>
    /\ ~ParamsRaise(BuildParams(Twin(request)))
    /\ Path(Twin(request).client, request.method) = path
    /\ BuildParams(Twin(request)) = params

\* The query parameters a list method can send besides limit and offset.
FilterKeys == {"order_by", "countries", "fund_id", "query", "female_founder"}

\* C25: a filter left at None, and a string filter given as "", is not a key
\* of the query parameters, and no query parameter is sent with a null or an
\* empty value.
C25_AbsentFiltersOmitted ==
  (phase = "done" /\ request.method \in ListMethods /\ answer # "AttributeError") =>
    /\ request.query \in {PyNone, Str("")} => params.query = Absent
    /\ request.countries = PyNone => params.countries = Absent
    /\ request.fund_id = PyNone => params.fund_id = Absent
    /\ request.female_founder = PyNone => params.female_founder = Absent
    /\ \A k \in FilterKeys : params[k] \notin {PyNone, Str("")}

\* C22: a resource method whose request is answered with a failure status
\* (404 or any other) ends with the very error the classifier raises for that
\* response and returns no object; a single-entity method never returns a
\* wrapper whose item is null.
C22_TypedErrorPropagates ==
  (phase = "done" /\ served # NoCall) =>
    /\ ~IsSuccess(served.status_code) =>
         /\ returned = NoResult
         /\ error = HandleResponse([status_code |-> served.status_code,
                                    body |-> served.body]).error
    /\ returned # NoResult => (error = NoError /\ returned.data # "null")

\* C22 witness: a single-entity method answered 404 with a structured error
\* body ended with NotFoundError carrying the body's message, and returned
\* nothing.
C22_Witness ==
  /\ phase = "done"
  /\ request.method = "get_company_by_id"
  /\ served # NoCall
  /\ served.status_code = 404
  /\ error = AltPEErrorInit("NotFoundError", <<"M">>, 404)
  /\ returned = NoResult

\* A step in which a call whose resource request is in flight ends without a
\* response and without being cancelled: the transport raised. The call ends
\* with the transport's exception, and the step sends nothing and changes
\* neither the cache nor the lock.
TransportStep ==
  \A c \in Callers :
    (/\ pc[c] = "rq_wait"
     /\ pc'[c] = "done"
     /\ resp'[c] = None
     /\ outcome'[c] # "CancelledError") =>
      /\ outcome'[c] = "TransportError"
      /\ token' = token
      /\ token_lock' = token_lock
      /\ nReq' = nReq
      /\ nExch' = nExch
      /\ exchSent' = exchSent

\* A call that ended with the transport's exception after sending its
\* resource request sent that one request only and was never classified.
TransportEndsCall ==
  \A c \in Callers :
    (pc[c] = "done" /\ outcome[c] = "TransportError" /\ nReq[c] >= 1) =>
      (nReq[c] = 1 /\ resp[c] = None)

\* C23: when the transport raises during a resource request, the call ends
\* with that exception as it is (no typed SDK error), makes no further
\* attempt, and the cached token is left unchanged.
C23_TransportErrorPropagates == [][TransportStep]_vars /\ []TransportEndsCall

\* C23 witness: a call ended with the transport's exception after one request
\* sent with the cached token, and that token is still cached.
C23_Witness ==
  \E c \in Callers :
    /\ pc[c] = "done" /\ outcome[c] = "TransportError"
    /\ nReq[c] = 1 /\ resp[c] = None
    /\ token # None /\ authHdr[c] = token

\* C24: the ValidationError raised for a 422 carries in its errors field the
\* parsed errors of a body that decodes as a structured error payload, and
\* None when the body does not decode; it never holds anything else.
C24_ValidationCarriesErrors ==
  (result # Pending /\ response.status_code = 422) =>
    /\ result.raises
    /\ result.error.kind = "ValidationError"
    /\ result.error.errors =
         IF ErrorResponseValid(response.body) THEN response.body.errors ELSE PyNone

\* The message the fallback order gives: the payload's message, or the text
\* of its errors when it has no message (absent, null or empty); the raw text
\* when the body is no valid payload; "HTTP <code>" when the text is empty.
FallbackMessage(r) ==
  IF ErrorResponseValid(r.body)
  THEN IF r.body.message.t = "str" /\ r.body.message.v # ""
       THEN <<r.body.message.v>>
       ELSE <<PyStr(r.body.errors)>>
  ELSE IF r.body.text # "" THEN <<r.body.text>>
  ELSE HttpCode(r.status_code)

\* C26: the message of a typed error follows the fallback order (payload
\* message, text of the payload's errors, raw response text, "HTTP <code>"),
\* and is never empty.
C26_MessageNeverEmpty ==
  (result # Pending /\ result.raises) =>
    /\ result.error.message = FallbackMessage(response)
    /\ result.error.message # <<"">>

\* A step that empties the cache is the classification of a 401 whose request
\* carried the token that is cached at that moment.
ClearsOwnToken ==
  (token # None /\ token' = None) =>
    \E c \in Callers :
      /\ pc[c] = "rq_handle" /\ resp[c] = 401 /\ pc'[c] = "h_raise"
      /\ authHdr[c] = token

\* C27: under every interleaving, a 401 clears the cache only when the
\* rejected request carried the token cached at that moment; a token cached
\* by a re-exchange is not cleared by a late 401 that belongs to an older
\* token.
C27_Late401KeepsNewerToken == [][ClearsOwnToken]_vars

\* The ways a credential exchange ends in an error.
ExchangeErrors == {"AuthenticationError", "DecodeError", "TransportError"}

\* A step in which a caller's exchange in flight ends in an error leaves the
\* cache empty and the lock free.
ExchangeFailStep ==
  \A c \in Callers :
    (pc[c] = "gt_wait" /\ pc'[c] = "done" /\ outcome'[c] \in ExchangeErrors) =>
      (token' = None /\ token_lock' = None)

\* Whatever failed before, a caller that holds the lock and finds the cache
\* empty at the re-check goes on to send its own exchange.
NoFailureRemembered ==
  \A c \in Callers :
    /\ (pc[c] = "gt_check2" /\ token = None /\ pc'[c] # "gt_check2") =>
         pc'[c] = "gt_post"
    /\ (pc[c] = "gt_post" /\ pc'[c] # "gt_post") =>
         (pc'[c] = "gt_wait" /\ exchSent' = exchSent + 1 /\ nExch'[c] = nExch[c] + 1)

\* C28: after an exchange attempt ends in any error (a status other than
\* 200, a 200 body without a token, a transport failure) the cache is empty
\* and the lock is free, and the failure is not remembered: the callers that
\* waited for the lock, and later callers, send their own exchange.
C28_FailedExchangeNotRemembered == [][ExchangeFailStep /\ NoFailureRemembered]_vars

\* C28 witness: one caller's exchange failed while the other caller, whose
\* call had started before that exchange ended, waited; that caller then
\* sent an exchange of its own, which is now in flight.
C28_Witness ==
  \E c, d \in Callers :
    /\ c # d
    /\ ~lateCall /\ exchFailed /\ issued = 0
    /\ pc[c] = "done" /\ outcome[c] \in ExchangeErrors /\ nExch[c] = 1
    /\ pc[d] = "gt_wait" /\ nExch[d] = 1 /\ token_lock = d
    /\ exchSent = 2

\* Positions inside _get_token.
GetTokenPcs ==
  {"gt_check1", "gt_ret1", "gt_lock", "gt_check2", "gt_ret2", "gt_post",
   "gt_wait", "gt_log", "gt_ret3"}

\* C29: under fair scheduling and a server that answers every request, every
\* call of token acquisition eventually returns or raises; no caller waits for
\* the lock forever, whether another caller's exchange fails or is cancelled,
\* or 401 responses clear the cache meanwhile.
C29_TokenAcquisitionTerminates ==
  \A c \in Callers : (pc[c] \in GetTokenPcs) ~> (pc[c] \notin GetTokenPcs)

\* C29 witness: a caller whose exchange was in flight was cancelled while the
\* other caller's call was under way; that caller then got the lock, made
\* its own exchange and returned from token acquisition.
C29_Witness ==
  \E c, d \in Callers :
    /\ c # d
    /\ ~lateCall /\ exchAborted
    /\ pc[c] = "done" /\ outcome[c] = "CancelledError" /\ nExch[c] = 1
    /\ pc[d] = "send" /\ nExch[d] = 1 /\ tok[d] # None

\* The values of the entries of a headers dict whose name is, as HTTP reads
\* header names (case-insensitively), `name`.
HeaderValuesOf(d, name) ==
  {d.v[i].val : i \in {j \in 1..Len(d.v) : Lower(d.v[j].k.v) = name}}

\* C30: the Authorization header of an authenticated call is "Bearer <token>"
\* with the token _get_token returned, and nothing else, even when the
\* caller's headers hold an Authorization entry of their own; the caller's
\* headers override only other headers, such as Accept.
C30_AuthorizationFromTokenOnly ==
  (sentHeaders # Pending /\ hdrArgs.authenticated) =>
    /\ HeaderValuesOf(sentHeaders, "authorization") = {Bearer(hdrArgs.token)}
    /\ \A name \in {"accept", "x-trace"} :
         (hdrArgs.headers.t = "dict" /\ HeaderValuesOf(hdrArgs.headers, name) # {}) =>
           HeaderValuesOf(sentHeaders, name) = HeaderValuesOf(hdrArgs.headers, name)
====
